---- MODULE Spec2Model ----
(***************************************************************************)
(* Edtech API (services/edtech-api): the Flask suggestion service of       *)
(* app.py and the inference client of ollama_client.py.                    *)
(*                                                                         *)
(* Conventions of the model                                                *)
(*  - A Python str that is taken apart or put together by the code (MAC,   *)
(*    hostname, SSID name, prompt) is a sequence of one-character strings. *)
(*    Fixed texts that are only passed on (error messages, reasons) are    *)
(*    TLA+ strings.                                                        *)
(*  - A JSON value is a tagged record: [t |-> "null"], [t |-> "bool", b],  *)
(*    [t |-> "int", v], [t |-> "float", h] (h in hundredths),              *)
(*    [t |-> "str", s], [t |-> "list", items], [t |-> "obj", f].           *)
(***************************************************************************)
EXTENDS Integers, Sequences, FiniteSets, TLC

\* ------------------------------------------------------------------------
\* Characters and strings
\* ------------------------------------------------------------------------

\* The printable ASCII characters, in code order starting at code 32 (the
\* grave accent, code 96, cannot be written in a TLA+ string: its place is
\* held by a text no character equals).
PrintableAscii ==
    <<
       " ", "!", "\"", "#", "$", "%", "&", "'", "(", ")", "*", "+", ",", "-", ".", "/",
       "0", "1", "2", "3", "4", "5", "6", "7", "8", "9", ":", ";", "<", "=", ">", "?",
       "@", "A", "B", "C", "D", "E", "F", "G", "H", "I", "J", "K", "L", "M", "N", "O",
       "P", "Q", "R", "S", "T", "U", "V", "W", "X", "Y", "Z", "[", "\\", "]", "^", "_",
       "(grave)", "a", "b", "c", "d", "e", "f", "g", "h", "i", "j", "k", "l", "m", "n", "o",
       "p", "q", "r", "s", "t", "u", "v", "w", "x", "y", "z", "{", "|", "}", "~"
    >>

\* ord(c) for a printable ASCII character (str.encode() of such a character
\* is the single byte ord(c)).
Ord(c) == 31 + CHOOSE i \in 1..Len(PrintableAscii) : PrintableAscii[i] = c

\* "needle in haystack" of two Python strings.
StrContains(haystack, needle) ==
    \E i \in 0..(Len(haystack) - Len(needle)) :
        \A j \in 1..Len(needle) : haystack[i + j] = needle[j]

\* Concatenation of a sequence of strings.
RECURSIVE Concat(_)
Concat(parts) ==
    IF parts = <<>> THEN <<>> ELSE Head(parts) \o Concat(Tail(parts))

\* sep.join(parts)
RECURSIVE StrJoin(_, _)
StrJoin(sep, parts) ==
    IF parts = <<>> THEN <<>>
    ELSE IF Len(parts) = 1 THEN parts[1]
    ELSE parts[1] \o sep \o StrJoin(sep, Tail(parts))

\* ------------------------------------------------------------------------
\* The strings of the requests of the model
\* ------------------------------------------------------------------------

MacA == <<"A", "A", ":", "B", "B", ":", "C", "C", ":", "D", "D", ":", "E", "E", ":", "F", "F">>
MacB == <<"1", "1", ":", "2", "2", ":", "3", "3", ":", "4", "4", ":", "5", "5", ":", "6", "6">>
Macs == {MacA, MacB}

HostnameDevice1 == <<"d", "e", "v", "i", "c", "e", "-", "1">>
SsidLab == <<"l", "a", "b", "-", "1", "0", "1">>
SsidQuiet == <<"q", "u", "i", "e", "t", "-", "c", "o", "r", "n", "e", "r">>
NotAnArray == <<"n", "o", "t", "-", "a", "n", "-", "a", "r", "r", "a", "y">>

\* ------------------------------------------------------------------------
\* hashlib.sha256 (FIPS 180-4).  A 32-bit word is a sequence of 32 bits,
\* most significant bit first, so that no arithmetic leaves 32 bits.
\* ------------------------------------------------------------------------

WordBits == 32

\* The n low bits of the natural number v, most significant first.
\* (v < 2^31, so the bits above the 31st are zero.)
ToBits(v, n) ==
    [i \in 1..n |-> IF n - i >= 31 THEN 0 ELSE (v \div (2 ^ (n - i))) % 2]

Word16x2(p) == ToBits(p[1], 16) \o ToBits(p[2], 16)

\* Round constants and initial hash value, each word as <<high 16 bits,
\* low 16 bits>>.
SHA256_K16 ==
    <<
       <<17034, 12184>>, <<28983, 17553>>, <<46528, 64463>>, <<59829, 56229>>,
       <<14678, 49755>>, <<23025, 4593>>, <<37439, 33444>>, <<43804, 24277>>,
       <<55303, 43672>>, <<4739, 23297>>, <<9265, 34238>>, <<21772, 32195>>,
       <<29374, 23924>>, <<32990, 45566>>, <<39900, 1703>>, <<49563, 61812>>,
       <<58523, 27073>>, <<61374, 18310>>, <<4033, 40390>>, <<9228, 41420>>,
       <<11753, 11375>>, <<19060, 33962>>, <<23728, 43484>>, <<30457, 35034>>,
       <<38974, 20818>>, <<43057, 50797>>, <<45059, 10184>>, <<48985, 32711>>,
       <<50912, 3059>>, <<54695, 37191>>, <<1738, 25425>>, <<5161, 10599>>,
       <<10167, 2693>>, <<11803, 8504>>, <<19756, 28156>>, <<21304, 3347>>,
       <<25866, 29524>>, <<30314, 2747>>, <<33218, 51502>>, <<37490, 11397>>,
       <<41663, 59553>>, <<43034, 26187>>, <<49739, 35696>>, <<51052, 20899>>,
       <<53650, 59417>>, <<54937, 1572>>, <<62478, 13701>>, <<4202, 41072>>,
       <<6564, 49430>>, <<7735, 27656>>, <<10056, 30540>>, <<13488, 48309>>,
       <<14620, 3251>>, <<20184, 43594>>, <<23452, 51791>>, <<26670, 28659>>,
       <<29839, 33518>>, <<30885, 25455>>, <<33992, 30740>>, <<36039, 520>>,
       <<37054, 65530>>, <<42064, 27883>>, <<48889, 41975>>, <<50801, 30962>>
    >>

SHA256_H16 ==
    <<
       <<27145, 58983>>, <<47975, 44677>>, <<15470, 62322>>, <<42319, 62778>>,
       <<20750, 21119>>, <<39685, 26764>>, <<8067, 55723>>, <<23520, 52505>>
    >>

\* The word operations bind their operands through singleton sets and
\* build their results with \o, so that every word is an explicit tuple
\* and every operand is evaluated once.
WXor(a, b) ==
    CHOOSE r \in {[i \in 1..WordBits |-> (x[i] + y[i]) % 2] \o <<>> :
                    x \in {a}, y \in {b}} : TRUE
WAnd(a, b) ==
    CHOOSE r \in {[i \in 1..WordBits |-> x[i] * y[i]] \o <<>> :
                    x \in {a}, y \in {b}} : TRUE
WNot(a) ==
    CHOOSE r \in {[i \in 1..WordBits |-> 1 - x[i]] \o <<>> : x \in {a}} : TRUE
RotR(a, n) ==
    CHOOSE r \in {[i \in 1..WordBits |-> x[((i - 1 - n) % WordBits) + 1]] \o <<>> :
                    x \in {a}} : TRUE
ShR(a, n) ==
    CHOOSE r \in {[i \in 1..WordBits |-> IF i <= n THEN 0 ELSE x[i - n]] \o <<>> :
                    x \in {a}} : TRUE

\* The number whose 16 bits are a[off+1..off+16].
Half(a, off) ==
      a[off + 1] * 32768 + a[off + 2] * 16384 + a[off + 3] * 8192
    + a[off + 4] * 4096 + a[off + 5] * 2048 + a[off + 6] * 1024
    + a[off + 7] * 512 + a[off + 8] * 256 + a[off + 9] * 128
    + a[off + 10] * 64 + a[off + 11] * 32 + a[off + 12] * 16
    + a[off + 13] * 8 + a[off + 14] * 4 + a[off + 15] * 2 + a[off + 16]

\* Addition modulo 2^32, on the two 16-bit halves.
WAdd(a, b) ==
    CHOOSE r \in
        {ToBits((hi + (lo \div 65536)) % 65536, 16) \o ToBits(lo % 65536, 16) :
            hi \in {Half(x, 0) + Half(y, 0) : x \in {a}, y \in {b}},
            lo \in {Half(x, 16) + Half(y, 16) : x \in {a}, y \in {b}}} : TRUE

BigSigma0(x) == WXor(WXor(RotR(x, 2), RotR(x, 13)), RotR(x, 22))
BigSigma1(x) == WXor(WXor(RotR(x, 6), RotR(x, 11)), RotR(x, 25))
SmallSigma0(x) == WXor(WXor(RotR(x, 7), RotR(x, 18)), ShR(x, 3))
SmallSigma1(x) == WXor(WXor(RotR(x, 17), RotR(x, 19)), ShR(x, 10))
Ch(x, y, z) == WXor(WAnd(x, y), WAnd(WNot(x), z))
Maj(x, y, z) == WXor(WXor(WAnd(x, y), WAnd(x, z)), WAnd(y, z))

\* The padded message as a bit sequence: the bytes, a 1 bit, zero bits up
\* to 448 mod 512, and the bit length in 64 bits.
Sha256Pad(bytes) ==
    CHOOSE r \in
        {msg \o <<1>> \o [i \in 1..((447 - Len(msg)) % 512) |-> 0]
             \o ToBits(Len(msg), 64) :
            msg \in {Concat([i \in 1..Len(bytes) |-> ToBits(bytes[i], 8)])}} : TRUE

\* The message schedule W[1..64] of one 512-bit block, built word by word.
RECURSIVE Sha256Extend(_)
Sha256Extend(words) ==
    CHOOSE r \in
        {IF Len(w) = 64 THEN w
         ELSE Sha256Extend(Append(w,
                  WAdd(WAdd(SmallSigma1(w[Len(w) - 1]), w[Len(w) - 6]),
                       WAdd(SmallSigma0(w[Len(w) - 14]), w[Len(w) - 15])))) :
            w \in {words}} : TRUE

Sha256Schedule(block) ==
    Sha256Extend([t \in 1..16 |-> SubSeq(block, 32 * (t - 1) + 1, 32 * t)] \o <<>>)

\* One round: the working variables <<a,b,c,d,e,f,g,h>> after the round
\* with constant k and schedule word wt.
Sha256Round(s, k, wt) ==
    CHOOSE r \in
        {<<WAdd(t1, t2), s[1], s[2], s[3], WAdd(s[4], t1), s[5], s[6], s[7]>> :
            t1 \in {WAdd(WAdd(WAdd(s[8], BigSigma1(s[5])),
                              WAdd(Ch(s[5], s[6], s[7]), k)), wt)},
            t2 \in {WAdd(BigSigma0(s[1]), Maj(s[1], s[2], s[3]))}} : TRUE

\* The working variables after rounds t..64.
RECURSIVE Sha256Rounds(_, _, _)
Sha256Rounds(state, schedule, round) ==
    CHOOSE r \in
        {IF t > 64 THEN s
         ELSE Sha256Rounds(Sha256Round(s, Word16x2(SHA256_K16[t]), w[t]), w, t + 1) :
            s \in {state}, w \in {schedule}, t \in {round}} : TRUE

RECURSIVE Sha256Blocks(_, _)
Sha256Blocks(hash, message) ==
    CHOOSE r \in
        {IF bits = <<>> THEN h
         ELSE Sha256Blocks(
                  CHOOSE sum \in
                      {<<WAdd(h[1], s[1]), WAdd(h[2], s[2]), WAdd(h[3], s[3]),
                         WAdd(h[4], s[4]), WAdd(h[5], s[5]), WAdd(h[6], s[6]),
                         WAdd(h[7], s[7]), WAdd(h[8], s[8])>> :
                          s \in {Sha256Rounds(h, Sha256Schedule(SubSeq(bits, 1, 512)), 1)}} :
                      TRUE,
                  SubSeq(bits, 513, Len(bits))) :
            h \in {hash}, bits \in {message}} : TRUE

HexDigits ==
    <<"0", "1", "2", "3", "4", "5", "6", "7",
      "8", "9", "a", "b", "c", "d", "e", "f">>

\* hashlib.sha256(bytes).hexdigest(): 64 lower-case hexadecimal characters.
Sha256Hex(bytes) ==
    CHOOSE r \in
        {[i \in 1..64 |->
             HexDigits[1 + 8 * bits[4 * i - 3] + 4 * bits[4 * i - 2]
                         + 2 * bits[4 * i - 1] + bits[4 * i]]] \o <<>> :
            bits \in {Concat(Sha256Blocks(
                          <<Word16x2(SHA256_H16[1]), Word16x2(SHA256_H16[2]),
                            Word16x2(SHA256_H16[3]), Word16x2(SHA256_H16[4]),
                            Word16x2(SHA256_H16[5]), Word16x2(SHA256_H16[6]),
                            Word16x2(SHA256_H16[7]), Word16x2(SHA256_H16[8])>>,
                          Sha256Pad(bytes)))}} : TRUE

\* mac.encode() for a str of printable ASCII characters.
Encode(s) == [i \in 1..Len(s) |-> Ord(s[i])]

DevicePrefix == <<"d", "e", "v", "i", "c", "e", "-">>

\* f"device-{hashlib.sha256(mac.encode()).hexdigest()[:8]}"
HashedToken(mac) == DevicePrefix \o SubSeq(Sha256Hex(Encode(mac)), 1, 8)

\* The tokens of the MAC strings of the model, computed once.
TokenOf == [mac \in Macs |-> HashedToken(mac)] @@ <<>>

\* The digests of the MAC strings of the model, computed once.
DigestOf == [mac \in Macs |-> Sha256Hex(Encode(mac))] @@ <<>>

\* sanitize_mac
sanitize_mac(mac) == TokenOf[mac]

\* ------------------------------------------------------------------------
\* JSON values and the Python operations the handlers apply to them
\* ------------------------------------------------------------------------

JNull == [t |-> "null"]
JBool(b) == [t |-> "bool", b |-> b]
JInt(v) == [t |-> "int", v |-> v]
\* A float, in hundredths (0.87 is JFloat(87)).
JFloat(h) == [t |-> "float", h |-> h]
\* A str the code takes apart or builds: its characters.
JStr(s) == [t |-> "str", s |-> s]
\* A str the code only passes on (a text of the backend's answer).
JText(a) == [t |-> "text", a |-> a]
JList(items) == [t |-> "list", items |-> items]
\* A dict: a function from its keys to JSON values.
JObj(f) == [t |-> "obj", f |-> f]

EmptyDict == <<>>

\* d[key] = value on a dict.
DictSet(d, key, value) ==
    [k \in (DOMAIN d) \cup {key} |-> IF k = key THEN value ELSE d[k]]

\* type(v).__name__
TypeName(v) ==
    CASE v.t = "null" -> "NoneType"
      [] v.t = "bool" -> "bool"
      [] v.t = "int" -> "int"
      [] v.t = "float" -> "float"
      [] v.t \in {"str", "text"} -> "str"
      [] v.t = "list" -> "list"
      [] v.t = "obj" -> "dict"

\* "not v"
Falsy(v) ==
    CASE v.t = "null" -> TRUE
      [] v.t = "bool" -> ~v.b
      [] v.t = "int" -> v.v = 0
      [] v.t = "float" -> v.h = 0
      [] v.t = "str" -> v.s = <<>>
      [] v.t = "list" -> v.items = <<>>
      [] v.t = "obj" -> DOMAIN v.f = {}

\* The outcome of an evaluation that may raise: a value or an exception.
\* The message of an exception is the sequence of the fragments of its
\* text.
Return(v) == [raised |-> FALSE, value |-> v]
Raise(type, msg) == [raised |-> TRUE, type |-> type, msg |-> msg]

\* The keys the handlers look up: the key and its characters.
KeySsids == [name |-> "ssids", chars |-> <<"s", "s", "i", "d", "s">>]
KeyDevices == [name |-> "devices", chars |-> <<"d", "e", "v", "i", "c", "e", "s">>]
KeyMac == [name |-> "mac", chars |-> <<"m", "a", "c">>]
KeyTimestamp == [name |-> "timestamp", chars |-> <<"t", "i", "m", "e", "s", "t", "a", "m", "p">>]
KeyDecision == [name |-> "decision", chars |-> <<"d", "e", "c", "i", "s", "i", "o", "n">>]

\* "key in v": membership in a dict's keys, in a list's items, substring of
\* a str, TypeError for the other types.
PyIn(key, v) ==
    CASE v.t = "obj" -> Return(key.name \in DOMAIN v.f)
      [] v.t = "list" ->
           Return(\E i \in 1..Len(v.items) : v.items[i] = JStr(key.chars))
      [] v.t = "str" -> Return(StrContains(v.s, key.chars))
      [] OTHER ->
           Raise("TypeError",
                 <<"argument of type '", TypeName(v), "' is not iterable">>)

\* v[key] for a str key.
PyGetItem(v, key) ==
    CASE v.t = "obj" ->
           IF key.name \in DOMAIN v.f THEN Return(v.f[key.name])
           ELSE Raise("KeyError", <<"'", key.name, "'">>)
      [] v.t \in {"str", "text"} ->
           Raise("TypeError", <<"string indices must be integers, not 'str'">>)
      [] v.t = "list" ->
           Raise("TypeError",
                 <<"list indices must be integers or slices, not str">>)
      [] OTHER ->
           Raise("TypeError",
                 <<"'", TypeName(v), "' object is not subscriptable">>)

\* ------------------------------------------------------------------------
\* json.dumps of the sanitized device list (indent=2) and the prompt
\* ------------------------------------------------------------------------

Digits == <<"0", "1", "2", "3", "4", "5", "6", "7", "8", "9">>

\* str(n) of an int.
RECURSIVE NatStr(_)
NatStr(n) ==
    IF n < 10 THEN <<Digits[n + 1]>>
    ELSE NatStr(n \div 10) \o <<Digits[(n % 10) + 1]>>

IntStr(n) == IF n < 0 THEN <<"-">> \o NatStr(-n) ELSE NatStr(n)

\* The JSON text of a str: json.dumps escapes the quote and the backslash
\* (the other printable ASCII characters stand for themselves).
JsonEscape(s) ==
    Concat([i \in 1..Len(s) |->
               IF s[i] = "\"" THEN <<"\\", "\"">>
               ELSE IF s[i] = "\\" THEN <<"\\", "\\">>
               ELSE <<s[i]>>])

\* json.dumps of a scalar.
JsonScalar(v) ==
    CASE v.t = "null" -> <<"n", "u", "l", "l">>
      [] v.t = "bool" -> IF v.b THEN <<"t", "r", "u", "e">> ELSE <<"f", "a", "l", "s", "e">>
      [] v.t = "int" -> IntStr(v.v)
      [] v.t = "str" -> <<"\"">> \o JsonEscape(v.s) \o <<"\"">>

\* One entry of sanitized_devices at indent level 1.
JsonDevice(d) ==
    Concat(<<<<" ", " ", "{", "\n">>,
             <<" ", " ", " ", " ", "\"", "d", "e", "v", "i", "c", "e", "_", "i", "d", "\"", ":", " ">>, <<"\"">> \o JsonEscape(d.device_id) \o <<"\"">>,
             <<",", "\n">>,
             <<" ", " ", " ", " ", "\"", "s", "i", "g", "n", "a", "l", "\"", ":", " ">>, JsonScalar(d.signal),
             <<",", "\n">>,
             <<" ", " ", " ", " ", "\"", "h", "o", "s", "t", "n", "a", "m", "e", "\"", ":", " ">>, JsonScalar(d.hostname),
             <<"\n", " ", " ", "}">>>>)

\* json.dumps(sanitized_devices, indent=2)
JsonDevices(devs) ==
    IF devs = <<>> THEN <<"[", "]">>
    ELSE <<"[", "\n">>
         \o StrJoin(<<",", "\n">>, [i \in 1..Len(devs) |-> JsonDevice(devs[i])])
         \o <<"\n", "]">>

\* The three fixed parts of the prompt f-string.
PromptHead ==
    <<
      "\n", "Y", "o", "u", " ", "a", "r", "e", " ", "a", " ", "n", "e", "t",
      "w", "o", "r", "k", " ", "a", "s", "s", "i", "s", "t", "a", "n", "t",
      " ", "f", "o", "r", " ", "a", " ", "c", "l", "a", "s", "s", "r", "o",
      "o", "m", " ", "e", "n", "v", "i", "r", "o", "n", "m", "e", "n", "t",
      ".", " ", "A", "n", "a", "l", "y", "z", "e", " ", "t", "h", "e", " ",
      "f", "o", "l", "l", "o", "w", "i", "n", "g", " ", "d", "e", "v", "i",
      "c", "e", "s", " ", "a", "n", "d", " ", "s", "u", "g", "g", "e", "s",
      "t", " ", "h", "o", "w", " ", "t", "o", " ", "g", "r", "o", "u", "p",
      " ", "t", "h", "e", "m", " ", "a", "c", "r", "o", "s", "s", " ", "S",
      "S", "I", "D", "s", " ", "f", "o", "r", " ", "o", "p", "t", "i", "m",
      "a", "l", " ", "p", "e", "r", "f", "o", "r", "m", "a", "n", "c", "e",
      ".", "\n", "\n", "A", "v", "a", "i", "l", "a", "b", "l", "e", " ", "S",
      "S", "I", "D", "s", ":", " "
    >>

PromptMiddle ==
    <<
      "\n", "\n", "D", "e", "v", "i", "c", "e", "s", ":", "\n"
    >>

PromptTail ==
    <<
      "\n", "\n", "C", "o", "n", "s", "i", "d", "e", "r", ":", "\n", "1", ".",
      " ", "S", "i", "g", "n", "a", "l", " ", "s", "t", "r", "e", "n", "g",
      "t", "h", " ", "(", "p", "r", "e", "f", "e", "r", " ", "d", "e", "v",
      "i", "c", "e", "s", " ", "w", "i", "t", "h", " ", "s", "t", "r", "o",
      "n", "g", " ", "s", "i", "g", "n", "a", "l", "s", " ", "o", "n", " ",
      "p", "r", "i", "m", "a", "r", "y", " ", "S", "S", "I", "D", ")", "\n",
      "2", ".", " ", "L", "o", "a", "d", " ", "b", "a", "l", "a", "n", "c",
      "i", "n", "g", " ", "(", "d", "i", "s", "t", "r", "i", "b", "u", "t",
      "e", " ", "d", "e", "v", "i", "c", "e", "s", " ", "e", "v", "e", "n",
      "l", "y", ")", "\n", "3", ".", " ", "D", "e", "v", "i", "c", "e", " ",
      "t", "y", "p", "e", " ", "(", "i", "f", " ", "h", "o", "s", "t", "n",
      "a", "m", "e", " ", "i", "n", "d", "i", "c", "a", "t", "e", "s", " ",
      "p", "u", "r", "p", "o", "s", "e", ")", "\n", "\n", "R", "e", "s", "p",
      "o", "n", "d", " ", "w", "i", "t", "h", " ", "J", "S", "O", "N", " ",
      "o", "n", "l", "y", " ", "i", "n", " ", "t", "h", "i", "s", " ", "f",
      "o", "r", "m", "a", "t", ":", "\n", "{", "\n", " ", " ", "\"", "s", "u",
      "g", "g", "e", "s", "t", "i", "o", "n", "\"", ":", " ", "{", "\n", " ",
      " ", " ", " ", "\"", "l", "a", "b", "-", "1", "0", "1", "\"", ":", " ",
      "[", "\"", "d", "e", "v", "i", "c", "e", "-", "a", "1", "b", "2", "c",
      "3", "d", "4", "\"", ",", " ", "\"", "d", "e", "v", "i", "c", "e", "-",
      "e", "5", "f", "6", "g", "7", "h", "8", "\"", "]", ",", "\n", " ", " ",
      " ", " ", "\"", "q", "u", "i", "e", "t", "-", "c", "o", "r", "n", "e",
      "r", "\"", ":", " ", "[", "\"", "d", "e", "v", "i", "c", "e", "-", "1",
      "1", "2", "2", "3", "3", "4", "4", "\"", "]", "\n", " ", " ", "}", ",",
      "\n", " ", " ", "\"", "c", "o", "n", "f", "i", "d", "e", "n", "c", "e",
      "\"", ":", " ", "0", ".", "8", "7", ",", "\n", " ", " ", "\"", "r", "e",
      "a", "s", "o", "n", "i", "n", "g", "\"", ":", " ", "\"", "S", "t", "r",
      "o", "n", "g", " ", "s", "i", "g", "n", "a", "l", " ", "d", "e", "v",
      "i", "c", "e", "s", " ", "t", "o", " ", "l", "a", "b", "-", "1", "0",
      "1", " ", "f", "o", "r", " ", "b", "a", "n", "d", "w", "i", "d", "t",
      "h", "-", "h", "e", "a", "v", "y", " ", "t", "a", "s", "k", "s", ",",
      " ", "w", "e", "a", "k", "e", "r", " ", "s", "i", "g", "n", "a", "l",
      "s", " ", "t", "o", " ", "q", "u", "i", "e", "t", "-", "c", "o", "r",
      "n", "e", "r", ".", "\"", "\n", "}", "\n"
    >>

\* The prompt for a list of SSID names (all str) and sanitized devices.
BuildPrompt(ssidNames, devs) ==
    PromptHead \o StrJoin(<<",", " ">>, ssidNames) \o PromptMiddle
    \o JsonDevices(devs) \o PromptTail

\* ------------------------------------------------------------------------
\* Inference client (ollama_client.py)
\* ------------------------------------------------------------------------

\* host.rstrip("/")
RECURSIVE RStripSlash(_)
RStripSlash(s) ==
    IF s # <<>> /\ s[Len(s)] = "/" THEN RStripSlash(SubSeq(s, 1, Len(s) - 1))
    ELSE s

DefaultModel == "llama3:8b"
DefaultTimeout == 30

\* OllamaClient.__init__
OllamaClient(host) ==
    [host |-> RStripSlash(host), model |-> DefaultModel,
     timeout |-> DefaultTimeout]

\* OLLAMA_HOST (its default)
OLLAMA_HOST == <<"h", "t", "t", "p", ":", "/", "/", "o", "l", "l", "a", "m", "a", ":", "1", "1", "4", "3", "4">>

\* The texts a backend answer can carry in the model.
TextGroups ==
    "{\"suggestion\": {\"lab-101\": [\"device-a1b2c3d4\"], \"quiet-corner\": [\"device-11223344\"]}, \"confidence\": 0.87, \"reasoning\": \"Strong signal devices to lab-101\"}"
TextReviewFalse ==
    "{\"suggestion\": {}, \"confidence\": 0.5, \"reasoning\": \"Test\", \"human_review_required\": false, \"timestamp\": \"1999-01-01T00:00:00Z\"}"
TextConfidenceOver ==
    "{\"suggestion\": {}, \"confidence\": 1.5, \"reasoning\": \"sure\"}"
TextConfidenceWord ==
    "{\"suggestion\": {}, \"confidence\": \"high\", \"reasoning\": \"\"}"
TextPartial ==
    "{\"suggestion\": {\"lab-101\": []}}"
TextEmptyObject ==
    "{}"
TextList ==
    "[]"
TextNumber ==
    "5"
TextString ==
    "\"lab-101\""
TextNull ==
    "null"
TextProse ==
    "Sure! Here is the grouping: {\"suggestion\": {}}"
TextEmpty ==
    ""

BackendTexts ==
    {TextGroups, TextReviewFalse, TextConfidenceOver, TextConfidenceWord, TextPartial, TextEmptyObject,
     TextList, TextNumber, TextString, TextNull, TextProse, TextEmpty}

\* The message of the JSONDecodeError of a text that does not begin a
\* JSON value.
ExpectingValue == "Expecting value: line 1 column 1 (char 0)"

\* json.loads(text), tabulated for the texts above (a text json.loads
\* rejects raises JSONDecodeError: each of them fails at its first
\* character).
json_loads(text) ==
    CASE text = TextGroups ->
           Return(JObj(("suggestion" :> JObj(("lab-101" :> JList(<<JText("device-a1b2c3d4")>>))
                             @@ ("quiet-corner" :> JList(<<JText("device-11223344")>>))))
                       @@ ("confidence" :> JFloat(87))
                       @@ ("reasoning" :> JText("Strong signal devices to lab-101"))))
      [] text = TextReviewFalse ->
           Return(JObj(("suggestion" :> JObj(EmptyDict))
                       @@ ("confidence" :> JFloat(50))
                       @@ ("reasoning" :> JText("Test"))
                       @@ ("human_review_required" :> JBool(FALSE))
                       @@ ("timestamp" :> JText("1999-01-01T00:00:00Z"))))
      [] text = TextConfidenceOver ->
           Return(JObj(("suggestion" :> JObj(EmptyDict))
                       @@ ("confidence" :> JFloat(150))
                       @@ ("reasoning" :> JText("sure"))))
      [] text = TextConfidenceWord ->
           Return(JObj(("suggestion" :> JObj(EmptyDict))
                       @@ ("confidence" :> JText("high"))
                       @@ ("reasoning" :> JText(""))))
      [] text = TextPartial ->
           Return(JObj(("suggestion" :> JObj(("lab-101" :> JList(<<>>))))))
      [] text = TextEmptyObject ->
           Return(JObj(EmptyDict))
      [] text = TextList ->
           Return(JList(<<>>))
      [] text = TextNumber ->
           Return(JInt(5))
      [] text = TextString ->
           Return(JText("lab-101"))
      [] text = TextNull ->
           Return(JNull)
      [] OTHER -> Raise("JSONDecodeError", <<ExpectingValue>>)

\* OllamaClient.query for the outcome net of requests.post:
\*   [net |-> "Timeout"], [net |-> "ConnectionError", detail],
\*   [net |-> "http", status, text, body] where body is the JSON value of
\*   the response body or [t |-> "nonjson"].
\* response_data.get("response", "") for a 200 answer whose body is a dict.
ResponseField(net) ==
    IF "response" \in DOMAIN net.body.f THEN net.body.f["response"]
    ELSE JText("")

\* The answer is a str when query returns the text of a str; len(answer)
\* and answer[:100] also pass for a list, which is returned as it is.
query(self, prompt, net) ==
    CASE net.net = "Timeout" ->
           Raise("Exception",
                 <<"Ollama request timed out after ", self.timeout, "s">>)
      [] net.net = "ConnectionError" ->
           Raise("Exception",
                 <<"Failed to connect to Ollama at ", self.host, ": ",
                   net.detail>>)
      [] net.net = "http" /\ net.status # 200 ->
           Raise("Exception",
                 <<"Ollama API returned ", net.status, ": ", net.text>>)
      [] net.net = "http" /\ net.status = 200 ->
           IF net.body.t = "nonjson"
           THEN Raise("JSONDecodeError", <<ExpectingValue>>)
           ELSE IF net.body.t # "obj"
           THEN Raise("AttributeError",
                      <<"'", TypeName(net.body),
                        "' object has no attribute 'get'">>)
           ELSE LET answer == ResponseField(net)
                IN CASE answer.t = "text" -> Return(answer.a)
                     [] answer.t = "list" -> Return(answer)
                     [] answer.t = "obj" ->
                          Raise("TypeError", <<"unhashable type: 'slice'">>)
                     [] OTHER ->
                          Raise("TypeError",
                                <<"object of type '", TypeName(answer),
                                  "' has no len()">>)

\* json.loads(ai_response) for the answer query returned to the outcome
\* net: a value that is no str is refused with a TypeError.
loads(answer, net) ==
    IF ResponseField(net).t = "text" THEN json_loads(answer)
    ELSE Raise("TypeError",
               <<"the JSON object must be str, bytes or bytearray, not ",
                 TypeName(answer)>>)

\* requests.get / requests.post gave a response with status 200.
StatusOk(net) == net.net = "http" /\ net.status = 200

\* An is_healthy that takes any HTTP answer for a healthy backend.
is_healthy_AnyAnswer(self, net) == net.net = "http"

\* OllamaClient.is_healthy for the outcome net of requests.get: every
\* exception is caught.
is_healthy(self, net) == StatusOk(net)

VersionUnknown == "unknown"
KeyName == [name |-> "name", chars |-> <<"n", "a", "m", "e">>]

\* OllamaClient.get_version: version_data.get("version", "unknown") on a
\* 200 answer; response.json() and .get may raise, which is caught.
get_version(self, net) ==
    IF StatusOk(net) /\ net.body.t = "obj"
    THEN IF "version" \in DOMAIN net.body.f THEN net.body.f["version"]
         ELSE JText(VersionUnknown)
    ELSE JText(VersionUnknown)

\* [model["name"] for model in models] for a list of models.
RECURSIVE ModelNames(_)
ModelNames(models) ==
    IF models = <<>> THEN Return(<<>>)
    ELSE LET name == PyGetItem(Head(models), KeyName)
             rest == ModelNames(Tail(models))
         IN IF name.raised THEN name
            ELSE IF rest.raised THEN rest
            ELSE Return(<<name.value>> \o rest.value)

\* Iteration over a Python value: the items of a list, the characters of
\* a str, the keys of a dict (one key stands for them all: each is a str,
\* and subscripting a str with "name" raises); anything else is not
\* iterable.
PyIter(v) ==
    CASE v.t = "list" -> Return(v.items)
      [] v.t = "str" -> Return([i \in 1..Len(v.s) |-> JStr(<<v.s[i]>>)])
      [] v.t = "obj" /\ DOMAIN v.f = {} -> Return(<<>>)
      [] v.t = "obj" /\ DOMAIN v.f # {} ->
           Return(<<JText(CHOOSE k \in DOMAIN v.f : TRUE)>>)
      [] OTHER ->
           Raise("TypeError", <<"'", TypeName(v), "' object is not iterable">>)

\* OllamaClient.list_models: the names on a 200 answer, [] otherwise and
\* whenever anything raises.
list_models(self, net) ==
    IF StatusOk(net) /\ net.body.t = "obj"
    THEN LET models == PyIter(IF "models" \in DOMAIN net.body.f
                              THEN net.body.f["models"] ELSE JList(<<>>))
             names == ModelNames(models.value)
         IN IF models.raised THEN <<>>
            ELSE IF names.raised THEN <<>>
            ELSE names.value
    ELSE <<>>

\* OllamaClient.pull_model: every exception is caught.
pull_model(self, model, net) == StatusOk(net)

\* ------------------------------------------------------------------------
\* Suggestion service (app.py): utilities
\* ------------------------------------------------------------------------

\* A response: the status code and the JSON body (a dict).
Response(status, body) == [status |-> status, body |-> body]

\* datetime.utcnow().isoformat() + "Z" at the clock value given.
Timestamp(clock) == [t |-> "time", at |-> clock]

\* The latest value of the clock that is followed.
MaxClock == 1

\* The clock at the next reading of datetime.utcnow(): the value just read
\* once more, or a later one.
Later(clock) == {clock} \cup {t \in {clock + 1} : t <= MaxClock}

\* The log is the sequence of the pieces appended to the file: a record is
\* the whole line of an entry, its line end included; Cut(entry) is a
\* beginning of the line of entry, without its end, so that the piece
\* appended next goes on in the same line.
Cut(entry) == [cut |-> entry]
Whole(piece) == "cut" \notin DOMAIN piece

\* The outcomes of the append in log_ai_decision: "ok", the line is in
\* the file; "cut", the write stopped after a part of the line and the
\* error was raised; "failed", open or write raised with nothing written.
\* The exception is logged and swallowed in each case.
AuditEntry(clock, queryText, suggestion, human_decision, notes) ==
    [timestamp |-> Timestamp(clock), query |-> queryText,
     ai_suggestion |-> suggestion, human_decision |-> human_decision,
     notes |-> notes]

\* A log_ai_decision that writes the line twice.
log_ai_decision_Twice(log, clock, queryText, suggestion, decision, notes, written) ==
    IF written = "ok"
    THEN log \o << AuditEntry(clock, queryText, suggestion, decision, notes),
                   AuditEntry(clock, queryText, suggestion, decision, notes) >>
    ELSE log

\* A log_ai_decision that opens the file for writing, not for appending,
\* and so loses the log when the write fails.
log_ai_decision_Truncates(log, clock, queryText, suggestion, decision, notes, written) ==
    IF written = "ok"
    THEN Append(log, AuditEntry(clock, queryText, suggestion, decision, notes))
    ELSE <<>>

\* A log_ai_decision that records a feedback in the record of the
\* suggestion it names, when the log has one with that timestamp.
log_ai_decision_InPlace(log, clock, queryText, suggestion, decision, notes, written) ==
    LET named == {i \in 1..Len(log) :
                     /\ Whole(log[i])
                     /\ "timestamp" \in DOMAIN log[i].ai_suggestion.f
                     /\ queryText =
                            <<"Feedback for ",
                              log[i].ai_suggestion.f["timestamp"]>>}
    IN IF written # "ok" THEN log
       ELSE IF named # {}
       THEN [i \in 1..Len(log) |->
                IF i \in named
                THEN [log[i] EXCEPT !.human_decision = decision,
                                    !.notes = notes]
                ELSE log[i]]
       ELSE Append(log, AuditEntry(clock, queryText, suggestion, decision, notes))

log_ai_decision(log, clock, queryText, suggestion, decision, notes, written) ==
    CASE written = "ok" ->
           Append(log, AuditEntry(clock, queryText, suggestion, decision, notes))
      [] written = "cut" ->
           Append(log, Cut(AuditEntry(clock, queryText, suggestion, decision,
                                      notes)))
      [] OTHER -> log

\* request.get_json(): the parsed body; an empty body is not JSON and
\* raises BadRequest.
get_json(body) ==
    IF body.t = "empty"
    THEN Raise("BadRequest",
               <<"400 Bad Request: The browser (or proxy) sent a request that this server could not understand.">>)
    ELSE Return(body)

\* A get that leaves out the default.
DictGet_NoDefault(d, key, default) == IF key \in DOMAIN d THEN d[key] ELSE JNull

\* device.get(key, default) on a dict
DictGet(d, key, default) == IF key \in DOMAIN d THEN d[key] ELSE default

HostnameUnknown == <<"u", "n", "k", "n", "o", "w", "n">>

\* A sanitize loop that computes the identifier for the first entry it
\* keeps and gives it to the entries after it.
RECURSIVE SanitizeDevices_OneToken(_, _)
SanitizeDevices_OneToken(devices, acc) ==
    IF devices = <<>> THEN Return(acc)
    ELSE LET device == Head(devices)
             hasMac == PyIn(KeyMac, device)
         IN IF hasMac.raised THEN hasMac
            ELSE IF ~hasMac.value
            THEN SanitizeDevices_OneToken(Tail(devices), acc)
            ELSE LET mac == PyGetItem(device, KeyMac)
                 IN IF mac.raised THEN mac
                    ELSE IF mac.value.t # "str"
                    THEN Raise("AttributeError",
                               <<"'", TypeName(mac.value),
                                 "' object has no attribute 'encode'">>)
                    ELSE SanitizeDevices_OneToken(Tail(devices),
                           Append(acc,
                             [device_id |-> IF acc = <<>>
                                            THEN sanitize_mac(mac.value.s)
                                            ELSE acc[1].device_id,
                              signal |-> DictGet(device.f, "signal", JInt(0)),
                              hostname |-> DictGet(device.f, "hostname",
                                                   JStr(HostnameUnknown))]))

\* The sanitize loop over devices: the sanitized entries collected in acc,
\* or the exception a malformed entry raises.
RECURSIVE SanitizeDevices(_, _)
SanitizeDevices(devices, acc) ==
    IF devices = <<>> THEN Return(acc)
    ELSE LET device == Head(devices)
             hasMac == PyIn(KeyMac, device)
         IN IF hasMac.raised THEN hasMac
            ELSE IF ~hasMac.value THEN SanitizeDevices(Tail(devices), acc)
            ELSE LET mac == PyGetItem(device, KeyMac)
                 IN IF mac.raised THEN mac
                    ELSE IF mac.value.t # "str"
                    THEN Raise("AttributeError",
                               <<"'", TypeName(mac.value),
                                 "' object has no attribute 'encode'">>)
                    ELSE SanitizeDevices(Tail(devices),
                           Append(acc,
                             [device_id |-> sanitize_mac(mac.value.s),
                              signal |-> DictGet(device.f, "signal", JInt(0)),
                              hostname |-> DictGet(device.f, "hostname",
                                                   JStr(HostnameUnknown))]))

\* ', '.join(ssids): the names, or TypeError at the first item that is
\* not a str.
JoinSsids(ssids) ==
    IF \E i \in 1..Len(ssids) : ssids[i].t # "str"
    THEN LET i == CHOOSE i \in 1..Len(ssids) :
                      /\ ssids[i].t # "str"
                      /\ \A j \in 1..(i - 1) : ssids[j].t = "str"
         IN Raise("TypeError",
                  <<"sequence item ", i - 1, ": expected str instance, ",
                    TypeName(ssids[i]), " found">>)
    ELSE Return([i \in 1..Len(ssids) |-> ssids[i].s])

\* The substitute for a backend text that json.loads rejects.
FallbackSuggestion ==
    ("suggestion" :> JObj(EmptyDict))
    @@ ("confidence" :> JFloat(0))
    @@ ("reasoning" :> JText("Ollama returned invalid response format"))

\* A stamp that leaves a human_review_required supplied by the backend as
\* it is.
Stamp_KeepsBackendFlag(parsed, clock) ==
    IF parsed.t = "obj"
    THEN Return(DictSet(IF "human_review_required" \in DOMAIN parsed.f
                        THEN parsed.f
                        ELSE DictSet(parsed.f, "human_review_required", JBool(TRUE)),
                        "timestamp", Timestamp(clock)))
    ELSE Raise("TypeError", <<"not a dict">>)

\* suggestion["human_review_required"] = True; suggestion["timestamp"] = ...
\* on the parsed value: item assignment raises on anything but a dict.
Stamp(parsed, clock) ==
    IF parsed.t = "obj"
    THEN Return(DictSet(DictSet(parsed.f, "human_review_required", JBool(TRUE)),
                        "timestamp", Timestamp(clock)))
    ELSE IF parsed.t = "list"
    THEN Raise("TypeError",
               <<"list indices must be integers or slices, not str">>)
    ELSE Raise("TypeError",
               <<"'", TypeName(parsed),
                 "' object does not support item assignment">>)

\* ------------------------------------------------------------------------
\* Suggestion service (app.py): the two protected view functions
\* ------------------------------------------------------------------------

\* What one run of a view function yields: the response, the prompts it
\* passed to ollama.query, and the audit log afterwards.
Outcome(resp, prompts, log) ==
    [resp |-> resp, prompts |-> prompts, log |-> log]

\* except Exception as e: return jsonify({"error": str(e)}), 500
ServerError(exc, prompts, log) ==
    Outcome(Response(500, [error |-> exc.msg]), prompts, log)

InvalidRequest(reason, log) ==
    Outcome(Response(400, [error |-> <<reason>>]), <<>>, log)

MissingSsidsOrDevices == "Missing 'ssids' or 'devices' in request"
MustBeArrays == "'ssids' and 'devices' must be arrays"

\* The steps after the sanitize loop, whose outcome is sanitized: compose,
\* invoke, parse, stamp, audit, respond. clock is the reading of the clock
\* taken for the stamp, logClock the reading log_ai_decision takes for the
\* entry, and log the file as log_ai_decision finds it.
GroupSanitized(sanitized, ssids, devices, net, clock, logClock, written, log, client) ==
    LET names == JoinSsids(ssids)
        prompt == BuildPrompt(names.value, sanitized.value)
        answer == query(client, prompt, net)
        loaded == loads(answer.value, net)
        parsed == IF loaded.raised THEN JObj(FallbackSuggestion)
                  ELSE loaded.value
        stamped == Stamp(parsed, clock)
    IN IF sanitized.raised THEN ServerError(sanitized, <<>>, log)
       ELSE IF names.raised THEN ServerError(names, <<>>, log)
       ELSE IF answer.raised THEN ServerError(answer, <<prompt>>, log)
       ELSE IF loaded.raised /\ loaded.type # "JSONDecodeError"
       THEN ServerError(loaded, <<prompt>>, log)
       ELSE IF stamped.raised THEN ServerError(stamped, <<prompt>>, log)
       ELSE Outcome(Response(200, stamped.value), <<prompt>>,
                    log_ai_decision(log, logClock,
                        <<"Group ", Len(devices), " devices across ",
                          Len(ssids), " SSIDs">>,
                        JObj(stamped.value), JText("pending"),
                        JText("AI suggestion generated"), written))

\* The steps after validation: the sanitize loop (app.py:171-186) and the
\* steps that follow it.
GroupDevices(ssids, devices, net, clock, logClock, written, log, client) ==
    GroupSanitized(SanitizeDevices(devices, <<>>), ssids, devices, net, clock,
                   logClock, written, log, client)

\* POST /vlan-group, the view function proper.
suggest_vlan_grouping(body, net, clock, logClock, written, log, client) ==
    LET data == get_json(body)
        hasSsids == PyIn(KeySsids, data.value)
        hasDevices == PyIn(KeyDevices, data.value)
        ssids == PyGetItem(data.value, KeySsids)
        devices == PyGetItem(data.value, KeyDevices)
    IN IF data.raised THEN ServerError(data, <<>>, log)
       ELSE IF Falsy(data.value) THEN InvalidRequest(MissingSsidsOrDevices, log)
       ELSE IF hasSsids.raised THEN ServerError(hasSsids, <<>>, log)
       ELSE IF ~hasSsids.value THEN InvalidRequest(MissingSsidsOrDevices, log)
       ELSE IF hasDevices.raised THEN ServerError(hasDevices, <<>>, log)
       ELSE IF ~hasDevices.value THEN InvalidRequest(MissingSsidsOrDevices, log)
       ELSE IF ssids.raised THEN ServerError(ssids, <<>>, log)
       ELSE IF devices.raised THEN ServerError(devices, <<>>, log)
       ELSE IF ssids.value.t # "list" \/ devices.value.t # "list"
       THEN InvalidRequest(MustBeArrays, log)
       ELSE GroupDevices(ssids.value.items, devices.value.items, net, clock,
                         logClock, written, log, client)

API_VERSION == "0.1.0"

\* GET /health, the view function: net is the outcome of the requests.get
\* of the health probe.
health(client, net) ==
    LET ollama_healthy == is_healthy(client, net)
        unifi_healthy == TRUE
    IN Response(200,
           [status |-> JText(IF ollama_healthy /\ unifi_healthy
                             THEN "healthy" ELSE "degraded"),
            ollama_reachable |-> JBool(ollama_healthy),
            unifi_reachable |-> JBool(unifi_healthy),
            api_version |-> JText(API_VERSION)])

\* GET /api/version, the view function.
version(client, net) ==
    Response(200, [api_version |-> JText(API_VERSION),
                   ollama_version |-> get_version(client, net)])

MissingTimestampOrDecision == "Missing 'timestamp' or 'decision'"

\* POST /feedback, the view function proper. clock is the reading
\* log_ai_decision takes for the entry.
record_feedback(body, clock, written, log) ==
    LET data == get_json(body)
        hasTimestamp == PyIn(KeyTimestamp, data.value)
        hasDecision == PyIn(KeyDecision, data.value)
        timestamp == PyGetItem(data.value, KeyTimestamp)
        decision == PyGetItem(data.value, KeyDecision)
    IN IF data.raised THEN ServerError(data, <<>>, log)
       ELSE IF Falsy(data.value)
       THEN InvalidRequest(MissingTimestampOrDecision, log)
       ELSE IF hasTimestamp.raised THEN ServerError(hasTimestamp, <<>>, log)
       ELSE IF ~hasTimestamp.value
       THEN InvalidRequest(MissingTimestampOrDecision, log)
       ELSE IF hasDecision.raised THEN ServerError(hasDecision, <<>>, log)
       ELSE IF ~hasDecision.value
       THEN InvalidRequest(MissingTimestampOrDecision, log)
       ELSE IF timestamp.raised THEN ServerError(timestamp, <<>>, log)
       ELSE IF decision.raised THEN ServerError(decision, <<>>, log)
       ELSE Outcome(Response(200, [status |-> JText("feedback recorded")]),
                    <<>>,
                    log_ai_decision(log, clock,
                        <<"Feedback for ", timestamp.value>>,
                        JObj(EmptyDict), decision.value,
                        DictGet(data.value.f, "notes", JStr(<<>>)),
                        written))

\* require_api_key: TRUE when the wrapped function is called. header is
\* the X-API-Key header, [present |-> FALSE] when the request has none.
require_api_key(apiKey, header) ==
    LET provided_key == IF header.present THEN header.value ELSE ""
    IN apiKey = "" \/ provided_key = apiKey

Unauthorized == Response(401, [error |-> <<"Invalid or missing API key">>])

\* ratelimit_handler
ratelimit_handler == Response(429, [error |-> <<"Rate limit exceeded. Try again later.">>])

\* ------------------------------------------------------------------------
\* The requests and backend outcomes of the model
\* ------------------------------------------------------------------------

\* The largest number of entries of a devices list.
MaxDevices == 2

DevFull ==
    JObj([mac |-> JStr(MacA), signal |-> JInt(-45),
          hostname |-> JStr(HostnameDevice1)])
DevBare == JObj([mac |-> JStr(MacB)])
\* A device whose hostname is its MAC address.
DevNamedByMac == JObj([mac |-> JStr(MacA), hostname |-> JStr(MacA)])
DevNoMac == JObj([signal |-> JInt(-72)])
DevMacNumber == JObj([mac |-> JInt(5)])
DevNumber == JInt(1)
DevString == JStr(<<"x">>)

DeviceEntries ==
    {DevFull, DevBare, DevNamedByMac, DevNoMac, DevMacNumber, DevNumber,
     DevString}

RECURSIVE SeqsUpTo(_, _)
SeqsUpTo(S, n) ==
    IF n = 0 THEN {<<>>}
    ELSE LET shorter == SeqsUpTo(S, n - 1)
         IN shorter \cup {Append(q, x) : q \in shorter, x \in S}

DevicesValues ==
    {JList(q) : q \in SeqsUpTo(DeviceEntries, MaxDevices)} \cup {JObj(EmptyDict)}

SsidsValues ==
    {JList(<<>>), JList(<<JStr(SsidLab)>>),
     JList(<<JStr(SsidLab), JStr(SsidQuiet)>>),
     JList(<<JStr(SsidLab), JInt(1)>>), JStr(NotAnArray)}

\* The bodies of POST /vlan-group: no body at all, JSON that is not an
\* object, and objects with and without each of the two keys.
EmptyBody == [t |-> "empty"]

NonObjectBodies ==
    {JNull, JInt(0), JInt(5), JBool(TRUE), JList(<<>>), JStr(NotAnArray),
     JList(<<JStr(KeySsids.chars), JStr(KeyDevices.chars)>>)}

VlanGroupBodies ==
    {EmptyBody} \cup NonObjectBodies
    \cup {JObj(EmptyDict)}
    \cup {JObj([ssids |-> s]) : s \in SsidsValues}
    \cup {JObj([devices |-> d]) : d \in DevicesValues}
    \cup {JObj([ssids |-> s, devices |-> d]) : s \in SsidsValues, d \in DevicesValues}

\* The bodies of POST /feedback.
TimestampText == <<"2", "0", "2", "5", "-", "0", "1", "-", "1", "9", "T", "1", "4", ":", "2", "3", ":", "4", "5", "Z">>
Approved == <<"a", "p", "p", "r", "o", "v", "e", "d">>
Maybe == <<"m", "a", "y", "b", "e">>
NotesOk == <<"o", "k">>

FeedbackBodies ==
    {EmptyBody, JNull, JInt(5), JObj(EmptyDict),
     JObj([decision |-> JStr(Approved)]),
     JObj([timestamp |-> JStr(TimestampText)]),
     JObj([timestamp |-> JStr(TimestampText), decision |-> JStr(Approved)]),
     JObj([timestamp |-> JStr(TimestampText), decision |-> JStr(Maybe),
           notes |-> JStr(NotesOk)]),
     JObj([timestamp |-> JInt(0), decision |-> JNull])}

\* What requests.post can yield.
NetTimeout == [net |-> "Timeout"]
NetRefused == [net |-> "ConnectionError", detail |-> "Connection refused"]
NetUnavailable ==
    [net |-> "http", status |-> 503, text |-> "Service Unavailable",
     body |-> [t |-> "nonjson"]]
NetNotFound ==
    [net |-> "http", status |-> 404, text |-> "model not found",
     body |-> [t |-> "nonjson"]]
NetAnswer(text) ==
    [net |-> "http", status |-> 200, text |-> "",
     body |-> JObj([response |-> JText(text)])]
NetNoResponseField ==
    [net |-> "http", status |-> 200, text |-> "", body |-> JObj(EmptyDict)]
NetHtml ==
    [net |-> "http", status |-> 200, text |-> "<html>",
     body |-> [t |-> "nonjson"]]

NetResponseList ==
    [net |-> "http", status |-> 200, text |-> "",
     body |-> JObj([response |-> JList(<<>>)])]

NetFailures == {NetTimeout, NetRefused, NetUnavailable, NetNotFound}

NetOutcomes ==
    NetFailures \cup {NetAnswer(text) : text \in BackendTexts}
    \cup {NetNoResponseField, NetHtml, NetResponseList}

\* What requests.get of /api/version can yield.
NetOtherError == [net |-> "RequestException"]
NetVersion ==
    [net |-> "http", status |-> 200, text |-> "",
     body |-> JObj([version |-> JText("0.1.20")])]
NetVersionMissing ==
    [net |-> "http", status |-> 200, text |-> "", body |-> JObj(EmptyDict)]
NetVersionNumber ==
    [net |-> "http", status |-> 200, text |-> "",
     body |-> JObj([version |-> JInt(1)])]
NetEmptyList ==
    [net |-> "http", status |-> 200, text |-> "", body |-> JList(<<>>)]
NetServerError ==
    [net |-> "http", status |-> 500, text |-> "",
     body |-> JObj([version |-> JText("0.1.20")])]

ProbeFailures ==
    {NetTimeout, NetRefused, NetOtherError, NetUnavailable, NetNotFound,
     NetServerError}

ProbeOutcomes ==
    ProbeFailures
    \cup {NetVersion, NetVersionMissing, NetVersionNumber, NetEmptyList, NetHtml}

\* What requests.get of /api/tags can yield besides.
NetTags(models) ==
    [net |-> "http", status |-> 200, text |-> "",
     body |-> JObj([models |-> models])]
ModelLlama == JObj([name |-> JText("llama3:8b")])
ModelCodeLlama == JObj([name |-> JText("codellama:7b")])
ModelUnnamed == JObj([size |-> JInt(1)])
TagsOutcomes ==
    {NetTags(JList(<<ModelLlama, ModelCodeLlama>>)),
     NetTags(JList(<<>>)),
     NetTags(JList(<<ModelLlama, ModelUnnamed>>)),
     NetTags(JList(<<JText("llama3:8b")>>)),
     NetTags(JNull),
     NetTags(ModelLlama),
     NetTags(JStr(<<"x">>))}

ClientOutcomes == ProbeOutcomes \cup TagsOutcomes
PullModels == {DefaultModel, "codellama:7b"}

\* ------------------------------------------------------------------------
\* The service as a state machine
\* ------------------------------------------------------------------------

VARIABLES
    API_KEY,    \* the configured shared secret ("" when unset)
    ollama,     \* the OllamaClient instance
    hits,       \* the limiter's counters: requests per (address, endpoint)
                \* in the current window
    audit,      \* the lines of the AI_DECISION_LOG file, oldest first
    now,        \* the clock: what datetime.utcnow() gives when it is read
    last,       \* the request answered last and what became of it
    history,    \* the requests received and the windows expired, in order
    issued,     \* the <<MAC, device_id>> pairs of the prompts sent so far
    serving,    \* the requests being served: received, not yet answered
    run,        \* the POST /vlan-group request being served step by step:
                \* the step it is at, its locals, the steps it has done
    logfile,    \* the characters of the AI_DECISION_LOG file, as the calls
                \* of log_ai_decision that run at the same time leave them
    writers     \* those calls: where each is, its file object, its line

vars ==
    <<API_KEY, ollama, hits, audit, now, last, history, issued, serving, run,
      logfile, writers>>

\* RATE_LIMIT is "<amount>/minute"; the amount of the model.
RateLimitAmount == 1

\* The longest sequence of requests and window expiries of a session.
MaxEvents == 2

ConfiguredKey == "test-api-key-123"
WrongKey == "wrong-key"
Addresses == {"10.0.0.1", "10.0.0.2"}

\* The address of the client where one client is followed.
OneAddress == {"10.0.0.1"}
Headers ==
    {[present |-> FALSE], [present |-> TRUE, value |-> ConfiguredKey],
     [present |-> TRUE, value |-> WrongKey]}

\* The endpoints the limiter counts separately.
VlanGroupEndpoint == "suggest_vlan_grouping"
FeedbackEndpoint == "record_feedback"
HealthEndpoint == "health"
VersionEndpoint == "version"
LimitedEndpoints ==
    {VlanGroupEndpoint, FeedbackEndpoint, HealthEndpoint, VersionEndpoint}

\* The marks of what a request did not get to: a body the view function
\* never read, a backend that was not called, a log that was not written.
Unread == [t |-> "unread"]
NotCalled == [net |-> "none"]

\* No request is being served step by step.
Idle == [pc |-> "idle"]

\* The requests that can be served at the same time.
MaxServing == 2

\* The calls of log_ai_decision that can run at the same time.
MaxWriters == 2
Writers == 1..MaxWriters

Init ==
    /\ API_KEY \in {"", ConfiguredKey}
    /\ ollama = OllamaClient(OLLAMA_HOST)
    /\ hits = [k \in Addresses \X LimitedEndpoints |-> 0]
    /\ audit = <<>>
    /\ now = 0
    /\ last = [route |-> "none"]
    /\ history = <<>>
    /\ issued = {}
    /\ serving = {}
    /\ run = Idle
    /\ logfile = <<>>
    /\ writers = [w \in Writers |-> [pc |-> "idle"]]

\* The limiter's test of one request: the counter of the key is raised,
\* and the request is refused when the amount was already used.
LimiterHit(counters, key) == [counters EXCEPT ![key] = @ + 1]

\* A limiter with one counter per endpoint, shared by all addresses.
LimiterRefuses_SharedByAddresses(counters, key) ==
    \E addr \in Addresses : counters[<<addr, key[2]>>] >= RateLimitAmount

LimiterRefuses(counters, key) == counters[key] >= RateLimitAmount

\* The positions in text after each occurrence of pattern.
After(text, pattern) ==
    {i + Len(pattern) : i \in {j \in 0..(Len(text) - Len(pattern)) :
                                  \A k \in 1..Len(pattern) :
                                      text[j + k] = pattern[k]}}

\* The text from position start + 1 up to the next double quote.
UpToQuote(text, start) ==
    LET stop == CHOOSE k \in (start + 1)..Len(text) :
                    /\ text[k] = "\""
                    /\ \A m \in (start + 1)..(k - 1) : text[m] # "\""
    IN SubSeq(text, start + 1, stop - 1)

DeviceIdKey ==
    <<"\"", "d", "e", "v", "i", "c", "e", "_", "i", "d", "\"", ":", " ", "\"">>

\* The values of "device_id" in a prompt, in the order of the text.
DeviceIds(prompt) ==
    LET starts == After(prompt, DeviceIdKey)
        nth[n \in 1..Cardinality(starts)] ==
            CHOOSE p \in starts : Cardinality({q \in starts : q < p}) = n - 1
    IN [n \in 1..Cardinality(starts) |-> UpToQuote(prompt, nth[n])]

\* The MAC strings of the device entries of a request that have one, in
\* the order of the request.
RECURSIVE MacsOf(_)
MacsOf(devices) ==
    IF devices = <<>> THEN <<>>
    ELSE IF Head(devices).t = "obj" /\ "mac" \in DOMAIN Head(devices).f
            /\ Head(devices).f["mac"].t = "str"
    THEN <<Head(devices).f["mac"].s>> \o MacsOf(Tail(devices))
    ELSE MacsOf(Tail(devices))

\* The bodies sent to /vlan-group in sessions, and in the sessions that
\* name one device for two networks.
SessionVlanGroupBodies ==
    {JObj([ssids |-> JList(<<JStr(SsidLab)>>), devices |-> JList(<<DevFull>>)]),
     JObj([devices |-> JList(<<DevFull>>)])}
TokenVlanGroupBodies ==
    {JObj([ssids |-> JList(<<JStr(SsidLab)>>), devices |-> JList(<<DevFull>>)]),
     JObj([ssids |-> JList(<<JStr(SsidQuiet)>>),
           devices |-> JList(<<DevBare, DevNamedByMac>>)])}

\* The prompts the bodies of the model lead to, and the device_id values
\* of each, computed once.
Prompts ==
    UNION {{out.prompts[n] : n \in DOMAIN out.prompts} :
           out \in {suggest_vlan_grouping(body, NetTimeout, 0, 0, "ok", <<>>,
                                          OllamaClient(OLLAMA_HOST)) :
                    body \in VlanGroupBodies \cup SessionVlanGroupBodies
                             \cup TokenVlanGroupBodies}}

DeviceIdsOf == [prompt \in Prompts |-> DeviceIds(prompt)] @@ <<>>

\* The <<MAC, device_id>> pairs a request put into its prompts: the n-th
\* MAC of the request with the n-th device_id of the prompt.
IssuedBy(body, prompts) ==
    IF prompts = <<>> THEN {}
    ELSE LET macs == MacsOf(body.f["devices"].items)
             ids == DeviceIdsOf[prompts[1]]
         IN {<<macs[n], ids[n]>> : n \in (1..Len(macs)) \cap (1..Len(ids))}

\* A request as the service holds it while it serves it: id is its place
\* among the events of the session, hitsBefore the limiter's counters as
\* the request found them, pc where its thread is, net the answer of the
\* backend, at and logAt the readings of the clock it took.
Request(id, route, addr, header, body, counters) ==
    [id |-> id, route |-> route, addr |-> addr, header |-> header,
     body |-> body, hitsBefore |-> counters, pc |-> "view", status |-> 0,
     net |-> NotCalled, prompts |-> <<>>, at |-> 0, logAt |-> 0]

\* The entry of a request in the history; the status is 0 until the
\* response is sent.
Event(r, status) ==
    [kind |-> "request", route |-> r.route, addr |-> r.addr,
     header |-> r.header, status |-> status]

\* A return of a view function that, after a 500, leaves the client
\* without its timeout.
Answer_ClientLost(r, written, ran, out, events, counters) ==
    /\ audit' = out.log
    /\ hits' = counters
    /\ last' = [id |-> r.id, route |-> r.route, addr |-> r.addr,
                header |-> r.header, body |-> r.body, net |-> r.net,
                written |-> written, ran |-> ran, resp |-> out.resp,
                prompts |-> out.prompts, at |-> r.at, logAt |-> r.logAt,
                logBefore |-> audit, hitsBefore |-> r.hitsBefore]
    /\ history' = events
    /\ ollama' = IF out.resp.status = 500
                 THEN [ollama EXCEPT !.timeout = 0] ELSE ollama
    /\ UNCHANGED <<API_KEY, now, logfile, writers>>

\* The response of a request is made: the key check or the limiter
\* refuses it, or the view function returns. ran tells whether the view
\* function was entered, written what became of the audit write, events
\* is the history after the step.
Answer(r, written, ran, out, events, counters) ==
    /\ audit' = out.log
    /\ hits' = counters
    /\ last' = [id |-> r.id, route |-> r.route, addr |-> r.addr,
                header |-> r.header, body |-> r.body, net |-> r.net,
                written |-> written, ran |-> ran, resp |-> out.resp,
                prompts |-> out.prompts, at |-> r.at, logAt |-> r.logAt,
                logBefore |-> audit, hitsBefore |-> r.hitsBefore]
    /\ history' = events
    /\ UNCHANGED <<API_KEY, ollama, now, logfile, writers>>

\* A request is received and answered before its thread reaches the
\* limiter: the key check of POST /vlan-group refuses it.
Finish(r, ran, out, counters) ==
    /\ Answer(r, "none", ran, out, Append(history, Event(r, out.resp.status)),
              counters)
    /\ UNCHANGED <<issued, serving, run>>

\* A request is received and counted by the limiter, which lets it
\* through: its thread is about to enter the view function, and other
\* threads run meanwhile.
Hold(r, counters) ==
    /\ serving' = serving \cup {r}
    /\ hits' = counters
    /\ history' = Append(history, Event(r, 0))
    /\ UNCHANGED <<API_KEY, ollama, audit, now, last, issued, run, logfile,
                   writers>>

\* A request is received and refused by the limiter: the response is
\* made by ratelimit_handler and is still to be sent.
Refuse(r, counters) ==
    /\ Answer(r, "none", FALSE, Outcome(ratelimit_handler, <<>>, audit),
              Append(history, Event(r, 0)), counters)
    /\ serving' = serving \cup {[r EXCEPT !.pc = "respond", !.status = 429]}
    /\ UNCHANGED <<issued, run>>

\* The thread of a held request goes on to its next wait.
Move(held, r) ==
    /\ serving' = (serving \ {held}) \cup {r}
    /\ UNCHANGED <<API_KEY, ollama, hits, audit, last, history, run, logfile,
                   writers>>

\* The thread of a held request ends: the request is refused for its key
\* or the view function returns without having called log_ai_decision,
\* and the response is sent. ran tells whether the view function was
\* entered.
Release(held, r, ran, out) ==
    /\ Answer(r, "none", ran, out,
              [history EXCEPT ![r.id].status = out.resp.status], hits)
    /\ serving' = serving \ {held}
    /\ UNCHANGED <<issued, run>>

\* POST /vlan-group is received: require_api_key, then limiter.limit
\* (app.py:131-133).
PostVlanGroup(addrs, headers, bodies) ==
    \E addr \in addrs, header \in headers :
        LET key == <<addr, VlanGroupEndpoint>>
            r == Request(Len(history) + 1, "/vlan-group", addr, header,
                         Unread, hits)
        IN IF ~require_api_key(API_KEY, header)
           THEN Finish(r, FALSE, Outcome(Unauthorized, <<>>, audit), hits)
           ELSE IF LimiterRefuses(hits, key)
           THEN Refuse(r, LimiterHit(hits, key))
           ELSE \E body \in bodies :
                    Hold([r EXCEPT !.body = body], LimiterHit(hits, key))

\* suggest_vlan_grouping runs up to requests.post (ollama_client.py:89):
\* the body is read and validated, the devices are sanitized, the prompt
\* is composed and sent. A request that does not get that far is answered
\* at once; the others wait for the backend.
RunVlanGroup ==
    \E held \in serving :
        /\ held.pc = "view"
        /\ held.route = "/vlan-group"
        /\ LET sent == suggest_vlan_grouping(held.body, NetTimeout, now, now,
                                             "none", audit, ollama).prompts
           IN IF sent = <<>>
              THEN Release(held, held, TRUE,
                           suggest_vlan_grouping(held.body, NotCalled, now,
                                                 now, "none", audit, ollama))
              ELSE /\ Move(held, [held EXCEPT !.pc = "query",
                                              !.prompts = sent])
                   /\ issued' = issued \cup IssuedBy(held.body, sent)
                   /\ UNCHANGED now

\* requests.post returns or raises in the thread of a request that waits
\* for the backend: query returns the text or raises, the text is parsed
\* and the suggestion stamped with a reading of the clock (app.py:230). A
\* request that fails on the way is answered 500 without reading the
\* clock; the others are about to call log_ai_decision.
QueryReturns(nets) ==
    \E held \in serving, net \in nets :
        /\ held.pc = "query"
        /\ LET r == [held EXCEPT !.net = net]
               out == suggest_vlan_grouping(r.body, net, now, now, "none",
                                            audit, ollama)
           IN IF out.resp.status = 200
              THEN /\ Move(held, [r EXCEPT !.pc = "log", !.at = now])
                   /\ now' \in Later(now)
                   /\ UNCHANGED issued
              ELSE /\ Release(held, r, TRUE, out)

\* POST /feedback is received: the limiter's default limit, checked
\* before the view function and its key check are entered (app.py:43-48).
PostFeedback(addrs, headers, bodies) ==
    \E addr \in addrs, header \in headers :
        LET key == <<addr, FeedbackEndpoint>>
            r == Request(Len(history) + 1, "/feedback", addr, header, Unread,
                         hits)
        IN IF LimiterRefuses(hits, key)
           THEN Refuse(r, LimiterHit(hits, key))
           ELSE \E body \in bodies :
                    Hold([r EXCEPT !.body = body], LimiterHit(hits, key))

\* require_api_key, then record_feedback up to the reading of the clock
\* in log_ai_decision (app.py:89): the body is read and validated and
\* the entry is built. A request that does not get that far is answered
\* at once, one refused for its key with its body unread.
RunFeedback ==
    \E held \in serving :
        /\ held.pc = "view"
        /\ held.route = "/feedback"
        /\ LET out == record_feedback(held.body, now, "none", audit)
           IN IF ~require_api_key(API_KEY, held.header)
              THEN Release(held, [held EXCEPT !.body = Unread], FALSE,
                           Outcome(Unauthorized, <<>>, audit))
              ELSE IF out.resp.status # 200
              THEN Release(held, held, TRUE, out)
              ELSE /\ Move(held, [held EXCEPT !.pc = "write", !.logAt = now])
                   /\ now' \in Later(now)
                   /\ UNCHANGED issued

\* log_ai_decision is entered in the thread of a request to /vlan-group:
\* the entry is built with a reading of the clock (app.py:88-93).
LogEntry ==
    \E held \in serving :
        /\ held.pc = "log"
        /\ Move(held, [held EXCEPT !.pc = "write", !.logAt = now])
        /\ now' \in Later(now)
        /\ UNCHANGED issued

\* What the view function of a held request returns, and the log it
\* leaves, when its write has the outcome given on the log given.
View(r, written, log) ==
    IF r.route = "/vlan-group"
    THEN suggest_vlan_grouping(r.body, r.net, r.at, r.logAt, written, log,
                               ollama)
    ELSE record_feedback(r.body, r.logAt, written, log)

\* log_ai_decision opens the file as it is by now, writes its line and
\* closes it, or fails (app.py:95-100), and the view function returns
\* its response, which is still to be sent.
LogWrite(writes) ==
    \E held \in serving, written \in writes :
        /\ held.pc = "write"
        /\ LET out == View(held, written, audit)
           IN /\ Answer(held, written, TRUE, out, history, hits)
              /\ serving' = (serving \ {held})
                            \cup {[held EXCEPT !.pc = "respond",
                                               !.status = out.resp.status]}
              /\ UNCHANGED <<issued, run>>

\* The response of a request is sent to its client and the thread ends.
Respond ==
    \E held \in serving :
        /\ held.pc = "respond"
        /\ history' = [history EXCEPT ![held.id].status = held.status]
        /\ serving' = serving \ {held}
        /\ UNCHANGED <<API_KEY, ollama, hits, audit, now, last, issued, run,
                       logfile, writers>>

NoHeader == [present |-> FALSE]

\* GET /health and GET /api/version are received: the limiter's default
\* limit, then the view, which asks the backend (requests.get,
\* ollama_client.py:40, :54) and waits for it; no API key is asked for.
GetProbe(route, endpoint) ==
    \E addr \in Addresses :
        LET key == <<addr, endpoint>>
            r == Request(Len(history) + 1, route, addr, NoHeader, Unread, hits)
        IN IF LimiterRefuses(hits, key)
           THEN Refuse(r, LimiterHit(hits, key))
           ELSE Hold([r EXCEPT !.pc = "probe"], LimiterHit(hits, key))

GetHealth == GetProbe("/health", HealthEndpoint)

GetVersion == GetProbe("/api/version", VersionEndpoint)

\* requests.get returns or raises in the thread of a request to /health
\* or /api/version, the view function returns and the response is sent.
ProbeReturns(nets) ==
    \E held \in serving, net \in nets :
        /\ held.pc = "probe"
        /\ Release(held, [held EXCEPT !.net = net], TRUE,
                   Outcome(IF held.route = "/health" THEN health(ollama, net)
                           ELSE version(ollama, net),
                           <<>>, audit))

\* The window of one counter ends.
WindowExpires ==
    \E key \in Addresses \X LimitedEndpoints :
        /\ hits[key] > 0
        /\ hits' = [hits EXCEPT ![key] = 0]
        /\ history' = Append(history, [kind |-> "expiry", addr |-> key[1],
                                       endpoint |-> key[2]])
        /\ UNCHANGED <<API_KEY, ollama, audit, now, last, issued, serving, run,
                       logfile, writers>>

WriteOutcomes == {"ok", "cut", "failed"}

\* One request, of any shape, to a freshly started service, and the steps
\* of its thread.
AnyVlanGroup ==
    /\ history = <<>>
    /\ PostVlanGroup(OneAddress, Headers, VlanGroupBodies)

AnyFeedback ==
    /\ history = <<>>
    /\ PostFeedback(OneAddress, Headers, FeedbackBodies)

AnyHealth ==
    /\ history = <<>>
    /\ GetHealth

AnyVersion ==
    /\ history = <<>>
    /\ GetVersion

AnyQueryReturns == QueryReturns(NetOutcomes)

AnyLogWrite == LogWrite(WriteOutcomes)

AnyProbeReturns == ProbeReturns(ProbeOutcomes)

Next ==
    \/ AnyVlanGroup
    \/ AnyFeedback
    \/ AnyHealth
    \/ AnyVersion
    \/ RunVlanGroup
    \/ RunFeedback
    \/ AnyQueryReturns
    \/ LogEntry
    \/ AnyLogWrite
    \/ AnyProbeReturns
    \/ Respond

Spec == Init /\ [][Next]_vars

\* Sessions: sequences of requests of a few shapes, and window expiries.
\* The requests are served in threads, at most MaxServing at a time.
SessionFeedbackBodies ==
    {JObj([timestamp |-> JStr(TimestampText), decision |-> JStr(Approved)]),
     JObj([decision |-> JStr(Approved)])}
SessionNetOutcomes == {NetAnswer(TextGroups), NetTimeout}
SessionHeaders ==
    {[present |-> FALSE], [present |-> TRUE, value |-> ConfiguredKey]}

\* The address of the requests to /feedback that are served while
\* requests to /vlan-group are.
OverlapAddresses == {"10.0.0.2"}

\* The feedback of the requests to /feedback that are served beside
\* requests to /vlan-group.
OverlapFeedbackBodies ==
    {JObj([timestamp |-> JStr(TimestampText), decision |-> JStr(Approved)])}

\* A request can be accepted: the session goes on and a thread is free.
Accepting ==
    /\ Len(history) < MaxEvents
    /\ Cardinality(serving) < MaxServing

SessionVlanGroup ==
    /\ Accepting
    /\ PostVlanGroup(Addresses, SessionHeaders, SessionVlanGroupBodies)

SessionFeedback ==
    /\ Accepting
    /\ PostFeedback(OverlapAddresses, SessionHeaders, SessionFeedbackBodies)

SessionWindowExpires ==
    /\ Len(history) < MaxEvents
    /\ WindowExpires

SessionQueryReturns == QueryReturns(SessionNetOutcomes)

\* The sessions in which the backend answers every prompt.
SessionQueryAnswers == QueryReturns({NetAnswer(TextGroups)})

SessionLogWrite == LogWrite({"ok"})

SessionNext ==
    \/ SessionVlanGroup
    \/ SessionFeedback
    \/ SessionWindowExpires
    \/ RunVlanGroup
    \/ RunFeedback
    \/ SessionQueryReturns
    \/ LogEntry
    \/ SessionLogWrite
    \/ Respond

\* The sessions are those of a service started with the secret set in the
\* environment (app.py:24), where a request is refused for its key,
\* throttled, rejected or served.
InitProtected ==
    /\ Init
    /\ API_KEY = ConfiguredKey

SessionSpec == InitProtected /\ [][SessionNext]_vars

\* Sessions of requests served one after another: a request is received
\* when the one before it has been answered.  MaxSerialEvents is the
\* length of the longest.
MaxSerialEvents == 3

Serial(length) ==
    /\ Len(history) < length
    /\ serving = {}

\* Quota sessions: suggestions of two clients and window expiries, long
\* enough for a client to use the quota and for MaxSerialEvents events
\* to follow: a request that is throttled, the expiry of the window, a
\* request in the new window.
QuotaVlanGroupBodies ==
    {JObj([ssids |-> JList(<<JStr(SsidLab)>>), devices |-> JList(<<DevFull>>)])}

QuotaVlanGroup ==
    /\ Serial(RateLimitAmount + MaxSerialEvents)
    /\ PostVlanGroup(Addresses, SessionHeaders, QuotaVlanGroupBodies)

QuotaWindowExpires ==
    /\ Serial(RateLimitAmount + MaxSerialEvents)
    /\ WindowExpires

QuotaNext ==
    \/ QuotaVlanGroup
    \/ QuotaWindowExpires
    \/ RunVlanGroup
    \/ SessionQueryAnswers
    \/ LogEntry
    \/ SessionLogWrite
    \/ Respond

QuotaSpec == InitProtected /\ [][QuotaNext]_vars

\* Token sessions: suggestions of two clients that name one device for
\* two networks, with other fields and in another place of the list.
TokenVlanGroup ==
    /\ Serial(MaxSerialEvents)
    /\ PostVlanGroup(Addresses, SessionHeaders, TokenVlanGroupBodies)

TokenNext ==
    \/ TokenVlanGroup
    \/ RunVlanGroup
    \/ SessionQueryReturns
    \/ LogEntry
    \/ SessionLogWrite
    \/ Respond

TokenSpec == InitProtected /\ [][TokenNext]_vars

\* Recovery sessions: requests of two clients that are refused, rejected,
\* throttled, that fail at the backend or at the audit write, and the
\* requests that follow them.
RecoveryVlanGroup ==
    /\ Serial(MaxSerialEvents)
    /\ PostVlanGroup(Addresses, SessionHeaders, SessionVlanGroupBodies)

RecoveryFeedback ==
    /\ Serial(MaxSerialEvents)
    /\ PostFeedback(OverlapAddresses, SessionHeaders, OverlapFeedbackBodies)

RecoveryNext ==
    \/ RecoveryVlanGroup
    \/ RecoveryFeedback
    \/ RunVlanGroup
    \/ RunFeedback
    \/ SessionQueryReturns
    \/ LogEntry
    \/ AnyLogWrite
    \/ Respond

RecoverySpec == InitProtected /\ [][RecoveryNext]_vars

\* Sessions of the two unprotected routes: sequences of GET /health and
\* GET /api/version, and window expiries.
SessionProbeOutcomes == {NetVersion, NetTimeout}

SessionHealth ==
    /\ Accepting
    /\ GetHealth

SessionVersion ==
    /\ Accepting
    /\ GetVersion

SessionProbeReturns == ProbeReturns(SessionProbeOutcomes)

ProbeNext ==
    \/ SessionHealth
    \/ SessionVersion
    \/ SessionWindowExpires
    \/ SessionProbeReturns
    \/ Respond

ProbeSpec == Init /\ [][ProbeNext]_vars

\* The inference client on its own: one call of one of its methods other
\* than query, with any outcome of the HTTP request the method makes.
Called(method, args, net, result) ==
    /\ history = <<>>
    /\ last' = [route |-> "client", method |-> method, args |-> args,
                net |-> net, result |-> result]
    /\ history' = Append(history, [kind |-> "call", method |-> method])
    /\ UNCHANGED <<API_KEY, ollama, hits, audit, now, issued, serving, run,
                   logfile, writers>>

CallIsHealthy ==
    \E net \in ClientOutcomes :
        Called("is_healthy", <<>>, net, is_healthy(ollama, net))

CallGetVersion ==
    \E net \in ClientOutcomes :
        Called("get_version", <<>>, net, get_version(ollama, net))

CallListModels ==
    \E net \in ClientOutcomes :
        Called("list_models", <<>>, net, list_models(ollama, net))

CallPullModel ==
    \E net \in ClientOutcomes, model \in PullModels :
        Called("pull_model", <<model>>, net, pull_model(ollama, model, net))

ClientNext == CallIsHealthy \/ CallGetVersion \/ CallListModels \/ CallPullModel

ClientSpec == Init /\ [][ClientNext]_vars

\* POST /vlan-group step by step.  The steps of suggest_vlan_grouping, in
\* the order of the code.
StepOrder ==
    <<"validate", "sanitize", "compose", "invoke", "parse", "stamp", "audit",
      "respond">>

Rank(step) == CHOOSE i \in 1..Len(StepOrder) : StepOrder[i] = step

\* A view that calls the backend again when the call failed.
AfterStep_Retry(step, failed) ==
    IF step = "respond" THEN "done"
    ELSE IF failed /\ step = "invoke" THEN "invoke"
    ELSE IF failed THEN "respond"
    ELSE StepOrder[Rank(step) + 1]

\* The step after a step: the next statement of the try block, or the
\* return of the 400 and the except clause when the step failed.
AfterStep(step, failed) ==
    IF step = "respond" THEN "done"
    ELSE IF failed THEN "respond"
    ELSE StepOrder[Rank(step) + 1]

NoFailure == [kind |-> "none"]

\* Validation: the two lists, the reason of the 400, or the exception.
Validate(body) ==
    LET data == get_json(body)
        hasSsids == PyIn(KeySsids, data.value)
        hasDevices == PyIn(KeyDevices, data.value)
        ssids == PyGetItem(data.value, KeySsids)
        devices == PyGetItem(data.value, KeyDevices)
        Raised(exc) == [kind |-> "raise", exc |-> exc]
        Invalid(reason) == [kind |-> "invalid", reason |-> reason]
    IN IF data.raised THEN Raised(data)
       ELSE IF Falsy(data.value) THEN Invalid(MissingSsidsOrDevices)
       ELSE IF hasSsids.raised THEN Raised(hasSsids)
       ELSE IF ~hasSsids.value THEN Invalid(MissingSsidsOrDevices)
       ELSE IF hasDevices.raised THEN Raised(hasDevices)
       ELSE IF ~hasDevices.value THEN Invalid(MissingSsidsOrDevices)
       ELSE IF ssids.raised THEN Raised(ssids)
       ELSE IF devices.raised THEN Raised(devices)
       ELSE IF ssids.value.t # "list" \/ devices.value.t # "list"
       THEN Invalid(MustBeArrays)
       ELSE [kind |-> "ok", ssids |-> ssids.value.items,
             devices |-> devices.value.items]

StepBodies ==
    {EmptyBody,
     JObj([devices |-> JList(<<DevFull>>)]),
     JObj([ssids |-> JStr(NotAnArray), devices |-> JList(<<DevFull>>)]),
     JObj([ssids |-> JList(<<JStr(SsidLab)>>),
           devices |-> JList(<<DevNoMac, DevFull>>)]),
     JObj([ssids |-> JList(<<JStr(SsidLab)>>),
           devices |-> JList(<<DevMacNumber>>)]),
     JObj([ssids |-> JList(<<JInt(1)>>), devices |-> JList(<<DevBare>>)])}

StepNetOutcomes ==
    {NetAnswer(TextGroups), NetAnswer(TextProse), NetAnswer(TextList),
     NetTimeout, NetUnavailable}

\* The request passes require_api_key and the limiter and enters the view.
Receive ==
    /\ run.pc = "idle"
    /\ history = <<>>
    /\ \E addr \in OneAddress, header \in Headers, body \in StepBodies,
          net \in StepNetOutcomes, written \in WriteOutcomes :
           /\ require_api_key(API_KEY, header)
           /\ ~LimiterRefuses(hits, <<addr, VlanGroupEndpoint>>)
           /\ hits' = LimiterHit(hits, <<addr, VlanGroupEndpoint>>)
           /\ run' = [pc |-> "validate", addr |-> addr, header |-> header,
                      body |-> body, net |-> net, written |-> written,
                      hitsBefore |-> hits,
                      appended |-> <<>>, trace |-> <<>>, queries |-> 0,
                      stampedAt |-> 0, auditedAt |-> 0, entered |-> FALSE,
                      sent |-> FALSE,
                      failure |-> NoFailure, ssids |-> <<>>, devices |-> <<>>,
                      sanitized |-> <<>>, prompt |-> <<>>, prompts |-> <<>>,
                      answer |-> "", parsed |-> JNull, stamped |-> EmptyDict]
    /\ UNCHANGED <<API_KEY, ollama, audit, now, last, history, issued, serving,
                   logfile, writers>>

\* The request is at the step given and nothing but run changes.
AtStep(step) ==
    /\ run.pc = step
    /\ UNCHANGED <<API_KEY, ollama, hits, audit, now, last, history, issued,
                   serving, logfile, writers>>

\* run after the step: the failure, if any, is kept for the response.
Took(step, failure, locals) ==
    [locals EXCEPT !.pc = AfterStep(step, failure.kind # "none"),
                   !.trace = Append(@, step),
                   !.failure = failure]

Thrown(result) ==
    IF result.raised THEN [kind |-> "raise", exc |-> result] ELSE NoFailure

StepValidate ==
    /\ AtStep("validate")
    /\ LET v == Validate(run.body)
       IN run' = IF v.kind = "ok"
                 THEN Took("validate", NoFailure,
                           [run EXCEPT !.ssids = v.ssids,
                                       !.devices = v.devices])
                 ELSE Took("validate", v, run)

StepSanitize ==
    /\ AtStep("sanitize")
    /\ LET sanitized == SanitizeDevices(run.devices, <<>>)
       IN run' = IF sanitized.raised
                 THEN Took("sanitize", Thrown(sanitized), run)
                 ELSE Took("sanitize", NoFailure,
                           [run EXCEPT !.sanitized = sanitized.value])

StepCompose ==
    /\ AtStep("compose")
    /\ LET names == JoinSsids(run.ssids)
       IN run' = IF names.raised
                 THEN Took("compose", Thrown(names), run)
                 ELSE Took("compose", NoFailure,
                           [run EXCEPT !.prompt =
                                BuildPrompt(names.value, run.sanitized)])

\* The invoke step, first part: query sends the prompt with requests.post
\* (ollama_client.py:89-93) and waits for the backend.
StepInvokeSend ==
    /\ run.pc = "invoke"
    /\ ~run.sent
    /\ run' = [run EXCEPT !.sent = TRUE, !.queries = @ + 1,
                          !.prompts = Append(@, run.prompt)]
    /\ issued' = issued \cup IssuedBy(run.body, <<run.prompt>>)
    /\ UNCHANGED <<API_KEY, ollama, hits, audit, now, last, history, serving,
                   logfile, writers>>

\* The invoke step, second part: requests.post returns or raises, and
\* query returns the text or raises.
StepInvoke ==
    /\ run.pc = "invoke"
    /\ run.sent
    /\ LET answer == query(ollama, run.prompt, run.net)
           called == [run EXCEPT !.sent = FALSE]
       IN run' = IF answer.raised
                 THEN Took("invoke", Thrown(answer), called)
                 ELSE Took("invoke", NoFailure,
                           [called EXCEPT !.answer = answer.value])
    /\ UNCHANGED <<API_KEY, ollama, hits, audit, now, last, history, issued,
                   serving, logfile, writers>>

\* json.loads: a JSONDecodeError is caught and gives the fallback, any
\* other exception leaves for the except clause of the view.
StepParse ==
    /\ AtStep("parse")
    /\ LET loaded == loads(run.answer, run.net)
       IN run' = IF loaded.raised /\ loaded.type # "JSONDecodeError"
                 THEN Took("parse", Thrown(loaded), run)
                 ELSE Took("parse", NoFailure,
                           [run EXCEPT !.parsed =
                                IF loaded.raised THEN JObj(FallbackSuggestion)
                                ELSE loaded.value])

\* The stamp reads the clock, unless the assignment before it raised.
StepStamp ==
    /\ run.pc = "stamp"
    /\ LET stamped == Stamp(run.parsed, now)
       IN /\ run' = IF stamped.raised
                    THEN Took("stamp", Thrown(stamped), run)
                    ELSE Took("stamp", NoFailure,
                              [run EXCEPT !.stamped = stamped.value,
                                          !.stampedAt = now])
          /\ now' \in IF stamped.raised THEN {now} ELSE Later(now)
    /\ UNCHANGED <<API_KEY, ollama, hits, audit, last, history, issued,
                   serving, logfile, writers>>

\* The audit step, first part: log_ai_decision is entered and builds the
\* entry with a reading of the clock (app.py:88-93).
StepAuditEntry ==
    /\ run.pc = "audit"
    /\ ~run.entered
    /\ run' = [run EXCEPT !.entered = TRUE, !.auditedAt = now]
    /\ now' \in Later(now)
    /\ UNCHANGED <<API_KEY, ollama, hits, audit, last, history, issued,
                   serving, logfile, writers>>

\* What the audit step appends to the log given.
StepEntry(log) ==
    log_ai_decision(log, run.auditedAt,
        <<"Group ", Len(run.devices), " devices across ", Len(run.ssids),
          " SSIDs">>,
        JObj(run.stamped), JText("pending"), JText("AI suggestion generated"),
        run.written)

\* The audit step, second part: log_ai_decision opens the file as it is
\* by now, writes its line and closes it, or fails (app.py:95-100).
StepAuditWrite ==
    /\ run.pc = "audit"
    /\ run.entered
    /\ audit' = StepEntry(audit)
    /\ run' = Took("audit", NoFailure, [run EXCEPT !.appended = StepEntry(<<>>)])
    /\ UNCHANGED <<API_KEY, ollama, hits, now, last, history, issued, serving,
                   logfile, writers>>

\* The response of the view: the suggestion, the 400 with its reason, or
\* the 500 of the except clause.
StepResponse ==
    CASE run.failure.kind = "none" -> Response(200, run.stamped)
      [] run.failure.kind = "invalid" ->
           InvalidRequest(run.failure.reason, audit).resp
      [] run.failure.kind = "raise" ->
           ServerError(run.failure.exc, run.prompts, audit).resp

StepRespond ==
    /\ run.pc = "respond"
    /\ LET r == [Request(Len(history) + 1, "/vlan-group", run.addr,
                         run.header, run.body, run.hitsBefore)
                     EXCEPT !.net = IF run.queries = 0 THEN NotCalled
                                    ELSE run.net,
                            !.at = run.stampedAt, !.logAt = run.auditedAt]
       IN Answer(r,
                 IF "audit" \in {run.trace[i] : i \in DOMAIN run.trace}
                 THEN run.written ELSE "none",
                 TRUE, Outcome(StepResponse, run.prompts, audit),
                 Append(history, Event(r, StepResponse.status)), hits)
    /\ run' = Took("respond", run.failure, run)
    /\ UNCHANGED <<issued, serving>>

\* The requests to /feedback that may be served while the request to
\* /vlan-group is between two of its steps: the view functions run in
\* threads of their own.
MaxOverlap == 1

StepOverlap ==
    /\ run.pc \notin {"idle", "done"}
    /\ Len(history) < MaxOverlap
    /\ PostFeedback(OverlapAddresses, SessionHeaders, OverlapFeedbackBodies)

StepNext ==
    \/ Receive
    \/ StepOverlap
    \/ StepValidate
    \/ StepSanitize
    \/ StepCompose
    \/ StepInvokeSend
    \/ StepInvoke
    \/ StepParse
    \/ StepStamp
    \/ StepAuditEntry
    \/ StepAuditWrite
    \/ StepRespond
    \/ RunFeedback
    \/ SessionLogWrite
    \/ Respond

StepSpec == Init /\ [][StepNext]_vars

\* Sessions of one client, seen through the audit log: suggestions,
\* feedback with and without notes, audit writes that succeed, fail or
\* stop partway, and window expiries.  One of the feedbacks names the
\* suggestion stamped with the first reading of the clock.
Rejected == <<"r", "e", "j", "e", "c", "t", "e", "d">>
AuditFeedbackBodies ==
    {JObj([decision |-> JStr(Approved)]),
     JObj([timestamp |-> Timestamp(0), decision |-> JStr(Rejected),
           notes |-> JStr(NotesOk)])}

AuditVlanGroup ==
    /\ Accepting
    /\ PostVlanGroup(OneAddress, SessionHeaders, SessionVlanGroupBodies)

AuditFeedback ==
    /\ Accepting
    /\ PostFeedback(OneAddress, SessionHeaders, AuditFeedbackBodies)

AuditNext ==
    \/ AuditVlanGroup
    \/ AuditFeedback
    \/ SessionWindowExpires
    \/ RunVlanGroup
    \/ RunFeedback
    \/ SessionQueryReturns
    \/ LogEntry
    \/ AnyLogWrite
    \/ Respond

AuditSpec == InitProtected /\ [][AuditNext]_vars

\* ------------------------------------------------------------------------
\* The audit file under calls of log_ai_decision that run at the same time
\* ------------------------------------------------------------------------

\* datetime.utcnow().isoformat() + "Z" at the clock value: the clock counts
\* the seconds after 2025-01-19T14:23:00.
TimeText(clock) ==
    <<"2", "0", "2", "5", "-", "0", "1", "-", "1", "9", "T", "1", "4", ":",
      "2", "3", ":">>
    \o (IF clock < 10 THEN <<"0">> ELSE <<>>) \o NatStr(clock) \o <<"Z">>

\* json.dumps of a dict with str keys, given as the sequence of its items
\* in insertion order: each item the key and the JSON text of the value.
JsonObject(items) ==
    <<"{">>
    \o StrJoin(<<",", " ">>,
               [i \in 1..Len(items) |->
                   JsonScalar(JStr(items[i][1])) \o <<":", " ">> \o items[i][2]])
    \o <<"}">>

EntryKeyTimestamp == <<"t", "i", "m", "e", "s", "t", "a", "m", "p">>
EntryKeyQuery == <<"q", "u", "e", "r", "y">>
EntryKeySuggestion == <<"a", "i", "_", "s", "u", "g", "g", "e", "s", "t", "i", "o", "n">>
EntryKeyDecision == <<"h", "u", "m", "a", "n", "_", "d", "e", "c", "i", "s", "i", "o", "n">>
EntryKeyNotes == <<"n", "o", "t", "e", "s">>

\* json.dumps(entry) + "\n" for the entry log_ai_decision builds: query,
\* human_decision and notes are str, suggestion is the JSON text of the
\* suggestion dict.
EntryLine(clock, queryText, suggestion, human_decision, notes) ==
    JsonObject(<<<<EntryKeyTimestamp, JsonScalar(JStr(TimeText(clock)))>>,
                 <<EntryKeyQuery, JsonScalar(JStr(queryText))>>,
                 <<EntryKeySuggestion, suggestion>>,
                 <<EntryKeyDecision, JsonScalar(JStr(human_decision))>>,
                 <<EntryKeyNotes, JsonScalar(JStr(notes))>>>>)
    \o <<"\n">>

\* The arguments of the calls: record_feedback's (an empty suggestion) and
\* suggest_vlan_grouping's with the substitute suggestion, stamped.
FeedbackQuery ==
    <<"F", "e", "e", "d", "b", "a", "c", "k", " ", "f", "o", "r", " ", "2",
      "0", "2", "5", "-", "0", "1", "-", "1", "9", "T", "1", "4", ":", "2",
      "3", ":", "4", "5", "Z">>
GroupQuery ==
    <<"G", "r", "o", "u", "p", " ", "1", " ", "d", "e", "v", "i", "c", "e",
      "s", " ", "a", "c", "r", "o", "s", "s", " ", "1", " ", "S", "S", "I",
      "D", "s">>
Pending == <<"p", "e", "n", "d", "i", "n", "g">>
SuggestionGenerated ==
    <<"A", "I", " ", "s", "u", "g", "g", "e", "s", "t", "i", "o", "n", " ",
      "g", "e", "n", "e", "r", "a", "t", "e", "d">>
InvalidFormat ==
    <<"O", "l", "l", "a", "m", "a", " ", "r", "e", "t", "u", "r", "n", "e",
      "d", " ", "i", "n", "v", "a", "l", "i", "d", " ", "r", "e", "s", "p",
      "o", "n", "s", "e", " ", "f", "o", "r", "m", "a", "t">>

StampedFallbackText(clock) ==
    JsonObject(<<<<<<"s", "u", "g", "g", "e", "s", "t", "i", "o", "n">>, <<"{", "}">>>>,
                 <<<<"c", "o", "n", "f", "i", "d", "e", "n", "c", "e">>, <<"0", ".", "0">>>>,
                 <<<<"r", "e", "a", "s", "o", "n", "i", "n", "g">>, JsonScalar(JStr(InvalidFormat))>>,
                 <<<<"h", "u", "m", "a", "n", "_", "r", "e", "v", "i", "e", "w", "_", "r", "e", "q", "u", "i", "r", "e", "d">>,
                   JsonScalar(JBool(TRUE))>>,
                 <<EntryKeyTimestamp, JsonScalar(JStr(TimeText(clock)))>>>>)

\* The calls of log_ai_decision: by record_feedback (app.py:274-279),
\* and by suggest_vlan_grouping with the suggestion it stamped at the
\* reading of the clock given (app.py:230-238).
FeedbackCall ==
    [query |-> FeedbackQuery, suggestion |-> <<"{", "}">>,
     human_decision |-> Approved, notes |-> <<>>]
SuggestionCall(clock) ==
    [query |-> GroupQuery, suggestion |-> StampedFallbackText(clock),
     human_decision |-> Pending, notes |-> SuggestionGenerated]

\* An open that does not ask for appending (the mode "r+").
open_NoAppend(content, mode) ==
    [append |-> FALSE, pos |-> 0, buffer |-> <<>>]

\* open(AI_DECISION_LOG, "a"): a file object with an empty buffer on a
\* descriptor opened with O_APPEND, positioned at the end of the file as
\* it is; with another mode the descriptor writes at its own position.
open(content, mode) ==
    [append |-> mode = "a", pos |-> IF mode = "a" THEN Len(content) ELSE 0,
     buffer |-> <<>>]

\* f.write(text): the text goes to the buffer of the file object.
write(f, text) == [f EXCEPT !.buffer = @ \o text]

\* The file after write(2) of bytes on the descriptor: at the end of the
\* file as it is now with O_APPEND, at the descriptor's position without.
WriteBytes(content, f, bytes) ==
    LET at == IF f.append THEN Len(content) ELSE f.pos
    IN SubSeq(content, 1, at) \o bytes
       \o SubSeq(content, at + Len(bytes) + 1, Len(content))

\* Leaving the with block: close() flushes the buffer with write(2),
\* which takes the first taken bytes of it. When it takes them all the
\* line is in the file; when it takes fewer (the disk is full, the file
\* has reached its size limit) the next write(2) raises, the rest of the
\* buffer is dropped, and the call ends in its except branch.
close(content, f, taken) ==
    WriteBytes(content, f, SubSeq(f.buffer, 1, taken))

\* The numbers of bytes a write(2) that is cut short may take.
CutLengths == {10}

\* suggest_vlan_grouping stamps its suggestion with a reading of the
\* clock (app.py:230) and is about to call log_ai_decision.
AppendStamp(w) ==
    /\ writers[w].pc = "idle"
    /\ writers' = [writers EXCEPT ![w] = [pc |-> "stamped", stamped |-> now]]
    /\ now' \in Later(now)
    /\ UNCHANGED <<API_KEY, ollama, hits, audit, last, history, issued,
                   serving, run, logfile>>

\* A call of log_ai_decision enters, by record_feedback or with the
\* suggestion stamped: the entry is built with a reading of the clock
\* (app.py:88-93).
AppendEntry(w) ==
    /\ writers[w].pc \in {"idle", "stamped"}
    /\ LET call == IF writers[w].pc = "idle" THEN FeedbackCall
                   ELSE SuggestionCall(writers[w].stamped)
       IN writers' =
              [writers EXCEPT ![w] =
                  [pc |-> "entered",
                   line |-> EntryLine(now, call.query, call.suggestion,
                                      call.human_decision, call.notes)]]
    /\ now' \in Later(now)
    /\ UNCHANGED <<API_KEY, ollama, hits, audit, last, history, issued,
                   serving, run, logfile>>

\* The file is opened as it is by now (app.py:96), or open raises and
\* the call ends in its except branch.
AppendOpen(w) ==
    /\ writers[w].pc = "entered"
    /\ \E opens \in BOOLEAN :
        writers' =
            [writers EXCEPT ![w] =
                IF opens
                THEN [pc |-> "opened", line |-> writers[w].line,
                      f |-> open(logfile, "a")]
                ELSE [pc |-> "failed"]]
    /\ UNCHANGED <<API_KEY, ollama, hits, audit, now, last, history, issued,
                   serving, run, logfile>>

\* f.write(json.dumps(entry) + "\n")
AppendWrite(w) ==
    /\ writers[w].pc = "opened"
    /\ writers' = [writers EXCEPT ![w].pc = "written",
                                  ![w].f = write(@, writers[w].line)]
    /\ UNCHANGED <<API_KEY, ollama, hits, audit, now, last, history, issued,
                   serving, run, logfile>>

\* The with block is left: the file object is closed.
AppendClose(w) ==
    /\ writers[w].pc = "written"
    /\ \E taken \in {Len(writers[w].f.buffer)} \cup CutLengths :
        /\ logfile' = close(logfile, writers[w].f, taken)
        /\ writers' = [writers EXCEPT
                           ![w].pc = IF taken = Len(writers[w].f.buffer)
                                     THEN "closed" ELSE "cut"]
    /\ UNCHANGED <<API_KEY, ollama, hits, audit, now, last, history, issued,
                   serving, run>>

AppendNext ==
    \E w \in Writers :
        \/ AppendStamp(w)
        \/ AppendEntry(w)
        \/ AppendOpen(w)
        \/ AppendWrite(w)
        \/ AppendClose(w)

\* log_ai_decision reads nothing of the configuration but the path of the
\* file: the calls are followed under one configuration.
AppendSpec == InitProtected /\ [][AppendNext]_vars

\* ------------------------------------------------------------------------
\* Properties
\* ------------------------------------------------------------------------

\* The last request reached suggest_vlan_grouping / record_feedback.
VlanGroupRan == last.route = "/vlan-group" /\ last.ran
FeedbackRan == last.route = "/feedback" /\ last.ran

\* The backend was called and answered 200 with a text in "response".
Answered ==
    /\ VlanGroupRan
    /\ last.net.net = "http"
    /\ last.net.status = 200
    /\ last.net.body.t = "obj"
    /\ "response" \in DOMAIN last.net.body.f
    /\ last.net.body.f["response"].t = "text"

AnswerText == last.net.body.f["response"].a

\* The MAC addresses (str) of the device entries of a request body.
RequestMacs(body) ==
    IF body.t = "obj" /\ "devices" \in DOMAIN body.f /\ body.f["devices"].t = "list"
    THEN LET items == body.f["devices"].items
         IN {items[i].f["mac"].s :
               i \in {j \in 1..Len(items) :
                        /\ items[j].t = "obj"
                        /\ "mac" \in DOMAIN items[j].f
                        /\ items[j].f["mac"].t = "str"}}
    ELSE {}

\* C1: the prompt passed to the inference client's query contains the raw
\* MAC address of no device of the request, whatever the ssids, signals
\* and hostnames are.
C1_PromptHidesMac ==
    VlanGroupRan =>
        \A i \in 1..Len(last.prompts) :
            \A mac \in RequestMacs(last.body) :
                ~StrContains(last.prompts[i], mac)

\* The backend text is JSON of the expected structure: an object.
ParsesToObject(text) ==
    ~json_loads(text).raised /\ json_loads(text).value.t = "obj"

IsFallback(body) ==
    /\ {"suggestion", "confidence", "reasoning"} \subseteq DOMAIN body
    /\ body["suggestion"] = JObj(EmptyDict)
    /\ body["confidence"] = JFloat(0)
    /\ body["reasoning"].t = "text"
    /\ body["reasoning"].a # ""

\* C2: a backend text that is not parseable as the expected structure
\* (not JSON, or JSON that is not an object) yields 200 with an empty
\* suggestion, confidence 0.0 and a non-empty reasoning, never 500.
C2_UnparseableGivesFallback ==
    (Answered /\ ~ParsesToObject(AnswerText)) =>
        /\ last.resp.status = 200
        /\ IsFallback(last.resp.body)

\* C3: when the backend text is a JSON object with suggestion, confidence
\* and reasoning, the response is 200, carries these three fields with the
\* backend's values, and its human_review_required is true whatever the
\* backend supplied for it.
C3_WellFormedPassedThrough ==
    (/\ Answered
     /\ ParsesToObject(AnswerText)
     /\ {"suggestion", "confidence", "reasoning"}
            \subseteq DOMAIN json_loads(AnswerText).value.f) =>
        LET sent == json_loads(AnswerText).value.f
            got == last.resp.body
        IN /\ last.resp.status = 200
           /\ {"suggestion", "confidence", "reasoning", "human_review_required"}
                  \subseteq DOMAIN got
           /\ got["suggestion"] = sent["suggestion"]
           /\ got["confidence"] = sent["confidence"]
           /\ got["reasoning"] = sent["reasoning"]
           /\ got["human_review_required"] = JBool(TRUE)

\* C3 witness: the backend supplied human_review_required false and the
\* request was answered 200.
C3_Witness ==
    /\ Answered
    /\ AnswerText = TextReviewFalse
    /\ last.resp.status = 200

\* The payload lacks the ssids key or the devices key.
LacksKey(body) ==
    \/ body.t = "empty"
    \/ /\ body.t = "obj"
       /\ ("ssids" \notin DOMAIN body.f \/ "devices" \notin DOMAIN body.f)

\* C4: a payload without the ssids key or without the devices key (an
\* empty body included) is answered 400 with an error reason, and the
\* inference client's query is not called.
C4_MissingKeyIs400 ==
    (VlanGroupRan /\ LacksKey(last.body)) =>
        /\ last.resp.status = 400
        /\ "error" \in DOMAIN last.resp.body
        /\ last.prompts = <<>>

\* C5: when query fails (timeout, connection failure, non-success status)
\* the response is 500 with the failure detail in its body, and a
\* malformed backend answer has another outcome, the 200 fallback.
C5_FailureDistinctFromMalformed ==
    /\ (VlanGroupRan /\ last.net \in NetFailures) =>
           /\ last.resp.status = 500
           /\ last.resp.body = [error |-> query(ollama, last.prompts[1], last.net).msg]
    /\ (Answered /\ ~ParsesToObject(AnswerText)) =>
           /\ last.resp.status = 200
           /\ "suggestion" \in DOMAIN last.resp.body

\* C6: query fails with three kinds a caller can tell apart by the kind:
\* BackendUnavailable on a connection failure, BackendTimeout on a timeout,
\* BackendError with the upstream status and body on a non-success status.
C6_FailureKinds ==
    (VlanGroupRan /\ last.net \in NetFailures) =>
        LET failure == query(ollama, last.prompts[1], last.net)
        IN /\ failure.raised
           /\ last.net.net = "ConnectionError" => failure.type = "BackendUnavailable"
           /\ last.net.net = "Timeout" => failure.type = "BackendTimeout"
           /\ last.net.net = "http" => failure.type = "BackendError"

\* C7: every 200 response of POST /vlan-group has suggestion, confidence,
\* reasoning, human_review_required and timestamp, whatever the backend
\* text was.
C7_EnvelopeComplete ==
    (last.route = "/vlan-group" /\ last.resp.status = 200) =>
        {"suggestion", "confidence", "reasoning", "human_review_required",
         "timestamp"} \subseteq DOMAIN last.resp.body

AllOfType(items, type) == \A i \in 1..Len(items) : items[i].t = type

\* The payload is JSON and structurally wrong: not a JSON object, or ssids
\* is not a list of strings, or devices is not a list of objects.
StructurallyWrong(body) ==
    \/ body.t \notin {"obj", "empty"}
    \/ /\ body.t = "obj"
       /\ \/ /\ "ssids" \in DOMAIN body.f
             /\ \/ body.f["ssids"].t # "list"
                \/ ~AllOfType(body.f["ssids"].items, "str")
          \/ /\ "devices" \in DOMAIN body.f
             /\ \/ body.f["devices"].t # "list"
                \/ ~AllOfType(body.f["devices"].items, "obj")

\* C8: a structurally wrong payload is answered 400 with a reason, never
\* 500, with no backend call and no audit record.
C8_StructurallyWrongIs400 ==
    (VlanGroupRan /\ StructurallyWrong(last.body)) =>
        /\ last.resp.status = 400
        /\ "error" \in DOMAIN last.resp.body
        /\ last.prompts = <<>>
        /\ audit = last.logBefore

\* The X-API-Key header is missing or differs from the secret.
BadKey(header) == ~header.present \/ header.value # API_KEY

\* C9: with a secret configured, a request to POST /vlan-group or POST
\* /feedback whose X-API-Key is missing or wrong is answered 401 and the
\* handler does not run (no backend call, no audit record); with no secret
\* configured no request is answered 401.
C9_BadKeyIs401 ==
    last.route \in {"/vlan-group", "/feedback"} =>
        /\ (API_KEY # "" /\ BadKey(last.header)) =>
               /\ last.resp.status = 401
               /\ ~last.ran
               /\ last.prompts = <<>>
               /\ audit = last.logBefore
        /\ API_KEY = "" => last.resp.status # 401

\* The events before the request answered last was received.
EventsBefore == SubSeq(history, 1, last.id - 1)

\* The events of the current window of (addr, endpoint): those after the
\* last expiry of that counter.
InWindow(events, addr, endpoint) ==
    LET expiries == {i \in 1..Len(events) :
                        /\ events[i].kind = "expiry"
                        /\ events[i].addr = addr
                        /\ events[i].endpoint = endpoint}
        start == IF expiries = {} THEN 0
                 ELSE CHOOSE i \in expiries : \A j \in expiries : j <= i
    IN SubSeq(events, start + 1, Len(events))

\* The requests addr sent to route in the events with a header that
\* passes the API-key check.
Sent(events, addr, route) ==
    Cardinality({i \in 1..Len(events) :
                    /\ events[i].kind = "request"
                    /\ events[i].addr = addr
                    /\ events[i].route = route
                    /\ (API_KEY = "" \/ ~BadKey(events[i].header))})

\* The requests of addr that used the quota of POST /vlan-group in the
\* current window, before the request served last: those the limiter
\* counted, which are the ones that passed the API-key check.
QuotaUsed(addr) ==
    Sent(InWindow(EventsBefore, addr, VlanGroupEndpoint), addr, "/vlan-group")

UnlimitedRoutes == {"/health", "/api/version", "/feedback"}

\* C11: rate limiting applies to the suggestion endpoint only: GET /health,
\* GET /api/version and POST /feedback are never answered 429, however
\* many requests one address sends to them within the window.
C11_OnlySuggestionsThrottled ==
    last.route \in UnlimitedRoutes => last.resp.status # 429

\* The request passed the API-key check.
Authorised == API_KEY = "" \/ ~BadKey(last.header)

\* The payload lacks the timestamp key or the decision key.
LacksFeedbackKey(body) ==
    \/ body.t = "empty"
    \/ /\ body.t = "obj"
       /\ ("timestamp" \notin DOMAIN body.f \/ "decision" \notin DOMAIN body.f)

HasFeedbackKeys(body) ==
    body.t = "obj" /\ {"timestamp", "decision"} \subseteq DOMAIN body.f

\* C12: an authorised POST /feedback reaches the handler; one whose payload
\* has both timestamp and
\* decision (decision of any value, notes optional) is answered 200 with
\* the body {status: "feedback recorded"}; one whose payload lacks
\* timestamp or decision (an empty body included) is answered 400 with an
\* error reason and appends no audit record.
C12_FeedbackAnswers ==
    (last.route = "/feedback" /\ Authorised) =>
        /\ last.ran
        /\ HasFeedbackKeys(last.body) =>
               /\ last.resp.status = 200
               /\ last.resp.body = [status |-> JText("feedback recorded")]
        /\ LacksFeedbackKey(last.body) =>
               /\ last.resp.status = 400
               /\ "error" \in DOMAIN last.resp.body
               /\ audit = last.logBefore

\* The audit log grew by exactly the record given.
Appended(record) == audit = Append(last.logBefore, record)

\* The query summary of a suggestion: the two counts and fixed words.
CountsOnly(body) ==
    <<"Group ", Len(body.f["devices"].items), " devices across ",
      Len(body.f["ssids"].items), " SSIDs">>

\* C13: when audit writes succeed, a POST /vlan-group answered 200 appends
\* exactly one audit record, with human_decision "pending" and a query
\* summary made of the device count and the SSID count only; a POST
\* /feedback answered 200 appends exactly one record, carrying the
\* submitted decision and notes; a request answered 400, 401, 429 or 500
\* appends no record.
C13_AuditAccounting ==
    (last.route \in {"/vlan-group", "/feedback"}
     /\ last.written \in {"ok", "none"}) =>
        /\ (last.route = "/vlan-group" /\ last.resp.status = 200) =>
               /\ Len(audit) = Len(last.logBefore) + 1
               /\ SubSeq(audit, 1, Len(last.logBefore)) = last.logBefore
               /\ audit[Len(audit)].human_decision = JText("pending")
               /\ audit[Len(audit)].query = CountsOnly(last.body)
        /\ (last.route = "/feedback" /\ last.resp.status = 200) =>
               /\ Len(audit) = Len(last.logBefore) + 1
               /\ SubSeq(audit, 1, Len(last.logBefore)) = last.logBefore
               /\ audit[Len(audit)].human_decision = last.body.f["decision"]
               /\ audit[Len(audit)].notes =
                      IF "notes" \in DOMAIN last.body.f
                      THEN last.body.f["notes"] ELSE JStr(<<>>)
        /\ last.resp.status \in {400, 401, 429, 500} =>
               audit = last.logBefore

\* A session in which a suggestion and, after it, a feedback with notes
\* were recorded.
C13_Witness ==
    /\ last.route = "/feedback"
    /\ last.resp.status = 200
    /\ last.written = "ok"
    /\ "notes" \in DOMAIN last.body.f
    /\ \E i \in 1..Len(last.logBefore) :
           /\ Whole(last.logBefore[i])
           /\ last.logBefore[i].query[1] = "Group "
    /\ Len(audit) = Len(last.logBefore) + 1

IsPrefix(before, after) ==
    /\ Len(before) <= Len(after)
    /\ SubSeq(after, 1, Len(before)) = before

\* C14: the audit log is append-only: in every step of a session of
\* suggestion and feedback requests the log before the step is a prefix of
\* the log after it, also when a feedback names an earlier suggestion by
\* its timestamp.
C14_AppendOnly == [][IsPrefix(audit, audit')]_vars

\* A feedback that names the suggestion recorded first was recorded: the
\* suggestion's record is still the first, the feedback's is new.
C14_Witness ==
    /\ last.route = "/feedback"
    /\ last.resp.status = 200
    /\ last.written = "ok"
    /\ last.body.f["timestamp"] = Timestamp(0)
    /\ last.logBefore # <<>>
    /\ Whole(last.logBefore[1])
    /\ last.logBefore[1].query[1] = "Group "
    /\ last.logBefore[1].ai_suggestion.f["timestamp"] = Timestamp(0)
    /\ audit[1] = last.logBefore[1]
    /\ audit[Len(audit)].query = <<"Feedback for ", Timestamp(0)>>
    /\ Len(audit) = Len(last.logBefore) + 1

\* What the view function answers to the request served last when the
\* audit write succeeds.
AnswerWhenWritten ==
    IF last.route = "/vlan-group"
    THEN suggest_vlan_grouping(last.body, last.net, last.at, last.logAt, "ok",
                               last.logBefore, ollama).resp
    ELSE record_feedback(last.body, last.logAt, "ok", last.logBefore).resp

\* The append of log_ai_decision failed: open or write raised, with
\* nothing or with a part of the line written.
WriteFailed == last.written \in {"failed", "cut"}

\* C15: when the append of log_ai_decision fails, POST /vlan-group and POST
\* /feedback answer with the status and body they answer with when the
\* write succeeds (200 and the suggestion or the confirmation), and the
\* audit log is left as it was.
C15_WriteFailureNotSurfaced ==
    (last.route \in {"/vlan-group", "/feedback"} /\ WriteFailed) =>
        /\ last.resp.status = 200
        /\ last.resp = AnswerWhenWritten
        /\ audit = last.logBefore

\* C15, amended: when the append of log_ai_decision fails, the two routes
\* answer with the status and body they answer with when the write
\* succeeds, and the audit log gains no record: it is left as it was, or,
\* when the write stopped partway, it ends with a beginning of the line
\* that was to be appended.
C15_WriteFailureAddsNoRecord ==
    (last.route \in {"/vlan-group", "/feedback"} /\ WriteFailed) =>
        /\ last.resp.status = 200
        /\ last.resp = AnswerWhenWritten
        /\ last.written = "failed" => audit = last.logBefore
        /\ last.written = "cut" =>
               /\ Len(audit) = Len(last.logBefore) + 1
               /\ IsPrefix(last.logBefore, audit)
               /\ ~Whole(audit[Len(audit)])

\* An audit write failed with nothing written, when the log ended with
\* the part of a line that an earlier failed write had left.
C15_Witness ==
    /\ last.route \in {"/vlan-group", "/feedback"}
    /\ last.written = "failed"
    /\ last.logBefore # <<>>
    /\ ~Whole(last.logBefore[Len(last.logBefore)])
    /\ audit = last.logBefore
    /\ last.resp.status = 200

\* ------------------------------------------------------------------------
\* The inference client's other methods, the health report
\* ------------------------------------------------------------------------

\* The HTTP request of a client method failed: it raised, or it was
\* answered with a status other than 200.
RequestFailed(net) == net.net # "http" \/ net.status # 200

\* C16: is_healthy, get_version, list_models and pull_model return a value
\* for every outcome of their HTTP request; on a network error, a timeout
\* or a non-success status is_healthy returns false, get_version the
\* literal "unknown", list_models the empty list and pull_model false; and
\* is_healthy and pull_model return true only on a success status.
C16_ClientNeverRaises ==
    last.route = "client" =>
        /\ last.method \in {"is_healthy", "pull_model"} =>
               /\ last.result \in BOOLEAN
               /\ last.result => ~RequestFailed(last.net)
               /\ RequestFailed(last.net) => last.result = FALSE
        /\ last.method = "get_version" =>
               /\ "t" \in DOMAIN last.result
               /\ RequestFailed(last.net) => last.result = JText("unknown")
        /\ last.method = "list_models" =>
               /\ DOMAIN last.result = 1..Len(last.result)
               /\ RequestFailed(last.net) => last.result = <<>>

\* is_healthy was called and the backend answered 503.
C16_Witness ==
    /\ last.route = "client"
    /\ last.method = "is_healthy"
    /\ last.net = NetUnavailable
    /\ last.result = FALSE

\* C17: GET /health is always answered 200; its status is "healthy"
\* exactly when both reachability flags it reports are true, and
\* "degraded" otherwise; the backend flag is the result of the client's
\* health probe and the controller flag is true.
C17_HealthReport ==
    last.route = "/health" =>
        /\ last.resp.status = 200
        /\ last.resp.body.status \in {JText("healthy"), JText("degraded")}
        /\ last.resp.body.status = JText("healthy")
               <=> /\ last.resp.body.ollama_reachable = JBool(TRUE)
                   /\ last.resp.body.unifi_reachable = JBool(TRUE)
        /\ last.resp.body.ollama_reachable = JBool(~RequestFailed(last.net))
        /\ last.resp.body.unifi_reachable = JBool(TRUE)

\* ------------------------------------------------------------------------
\* Device identifiers, the sanitize step, the order of the steps
\* ------------------------------------------------------------------------

HexChars ==
    {"0", "1", "2", "3", "4", "5", "6", "7", "8", "9",
     "a", "b", "c", "d", "e", "f"}

\* "device-" followed by 8 hexadecimal characters.
TokenForm(id) ==
    /\ Len(id) = Len(DevicePrefix) + 8
    /\ SubSeq(id, 1, Len(DevicePrefix)) = DevicePrefix
    /\ \A i \in (Len(DevicePrefix) + 1)..Len(id) : id[i] \in HexChars

\* C18: the device_id put into a prompt is a function of the MAC string
\* alone: over all the prompts of a session, read from the text sent to
\* the backend, no MAC is given two identifiers, whatever the device's
\* signal and hostname, its place in the list, the ssids, the earlier
\* requests and the state of the service; and every identifier is
\* "device-" followed by 8 hexadecimal characters.
C18_TokenFunctionOfMac ==
    /\ \A p \in issued, q \in issued : p[1] = q[1] => p[2] = q[2]
    /\ \A p \in issued : TokenForm(p[2])

\* The MAC of a device named in an earlier suggestion for one network,
\* with signal and hostname, was sent again in a request for another
\* network, with another hostname, without a signal and second in the
\* list, after the MAC of another device, when a request of another
\* client had been answered: the three entries were given two
\* identifiers, one for each MAC.
C18_Witness ==
    /\ last.route = "/vlan-group"
    /\ last.prompts # <<>>
    /\ last.body.f["ssids"].items = <<JStr(SsidQuiet)>>
    /\ last.body.f["devices"].items = <<DevBare, DevNamedByMac>>
    /\ \E i \in 1..Len(last.logBefore) :
           /\ Whole(last.logBefore[i])
           /\ last.logBefore[i].query = CountsOnly(
                  JObj([ssids |-> JList(<<JStr(SsidLab)>>),
                        devices |-> JList(<<DevFull>>)]))
    /\ \E i \in 1..(last.id - 1) :
           /\ history[i].kind = "request"
           /\ history[i].addr # last.addr
           /\ history[i].status = 200
    /\ {p[1] : p \in issued} = {MacA, MacB}
    /\ Cardinality(issued) = 2

\* The payload has the shape the service documents: ssids a list of
\* strings, devices a list of objects whose mac, when present, is a string.
WellFormedPayload(body) ==
    /\ body.t = "obj"
    /\ {"ssids", "devices"} \subseteq DOMAIN body.f
    /\ ~StructurallyWrong(body)
    /\ \A i \in 1..Len(body.f["devices"].items) :
           "mac" \in DOMAIN body.f["devices"].items[i].f =>
               body.f["devices"].items[i].f["mac"].t = "str"

HasMac(device) == "mac" \in DOMAIN device.f

\* The sanitized entry C19 expects for a device entry that has a mac.
ExpectedEntry(device) ==
    [device_id |-> DevicePrefix \o SubSeq(DigestOf[device.f["mac"].s], 1, 8),
     signal |-> IF "signal" \in DOMAIN device.f
                THEN device.f["signal"] ELSE JInt(0),
     hostname |-> IF "hostname" \in DOMAIN device.f
                  THEN device.f["hostname"]
                  ELSE JStr(<<"u", "n", "k", "n", "o", "w", "n">>)]

ExpectedSanitized(devices) ==
    LET kept == SelectSeq(devices, HasMac)
    IN [i \in 1..Len(kept) |-> ExpectedEntry(kept[i])]

\* C19: for a payload of the documented shape, device entries without a
\* mac are skipped and the request goes on to the backend, also when
\* every entry was skipped; the device list of the prompt holds, in input
\* order, exactly one entry per device entry that has a mac, with its
\* hashed identifier, its signal (0 when missing) and its hostname
\* ("unknown" when missing).
C19_SanitizeStep ==
    (VlanGroupRan /\ WellFormedPayload(last.body)) =>
        LET ssids == last.body.f["ssids"].items
            devices == last.body.f["devices"].items
        IN /\ last.resp.status # 400
           /\ last.prompts =
                  << BuildPrompt([i \in 1..Len(ssids) |-> ssids[i].s],
                                 ExpectedSanitized(devices)) >>

\* A request whose first device entry has no mac and whose second has
\* nothing but a mac was answered 200.
C19_Witness ==
    /\ VlanGroupRan
    /\ last.body.t = "obj"
    /\ "devices" \in DOMAIN last.body.f
    /\ last.body.f["devices"] = JList(<<DevNoMac, DevBare>>)
    /\ WellFormedPayload(last.body)
    /\ last.resp.status = 200

\* The request served step by step has done the step.
Done(step) == \E i \in DOMAIN run.trace : run.trace[i] = step

\* The request served step by step ends as the view function says: the
\* same response, the same prompts, the same audit record (seen while it
\* is the request that returned last).
StepsAgreeWithView ==
    (run.pc = "done" /\ last.route = "/vlan-group") =>
        LET out == suggest_vlan_grouping(run.body, run.net, run.stampedAt,
                                         run.auditedAt, run.written, <<>>,
                                         ollama)
        IN /\ last.resp = out.resp
           /\ last.prompts = out.prompts
           /\ run.appended = out.log

\* C20: a POST /vlan-group request runs its steps in the order validate,
\* sanitize, compose, invoke, parse, stamp, audit, respond, none of them
\* twice; the backend is queried at most once, and only at the invoke
\* step of a request whose validation passed; the audit log changes only
\* by the audit step, which comes after a query that returned and before
\* the response.
C20_StepOrder ==
    run.pc # "idle" =>
        /\ \A i \in DOMAIN run.trace, j \in DOMAIN run.trace :
               i < j => Rank(run.trace[i]) < Rank(run.trace[j])
        /\ run.pc = "done" <=> Done("respond")
        /\ run.pc \notin {"done", "validate"} =>
               /\ run.trace # <<>>
               /\ Rank(run.trace[Len(run.trace)]) < Rank(run.pc)
        /\ run.queries <= 1
        /\ Len(run.prompts) = run.queries
        /\ run.queries = 1 <=>
               (Done("invoke") \/ (run.pc = "invoke" /\ run.sent))
        /\ Done("invoke") =>
               /\ run.trace[1] = "validate"
               /\ Validate(run.body).kind = "ok"
        /\ Done("audit") =>
               /\ Done("invoke")
               /\ ~query(ollama, run.prompts[1], run.net).raised
        /\ run.appended # <<>> => Done("audit")
        /\ (Done("audit") /\ run.written = "ok") =>
               /\ Len(run.appended) = 1
               /\ \E i \in DOMAIN audit : audit[i] = run.appended[1]
        /\ (Done("respond") /\ Done("audit")) =>
               \E i \in DOMAIN run.trace, j \in DOMAIN run.trace :
                   i < j /\ run.trace[i] = "audit" /\ run.trace[j] = "respond"

\* A request went through all eight steps and was answered 200 with its
\* audit record written.
C20_Witness ==
    /\ run.pc = "done"
    /\ run.trace = StepOrder
    /\ run.queries = 1
    /\ last.resp.status = 200
    /\ run.written = "ok"
    /\ audit = run.appended

\* A JSON number within [0, 1].
InUnitInterval(v) ==
    \/ v.t = "float" /\ v.h >= 0 /\ v.h <= 100
    \/ v.t = "int" /\ v.v \in {0, 1}

\* C22: every suggestion POST /vlan-group returns with status 200 has a
\* confidence value, and the value is a number within [0, 1], whatever the
\* backend's text contained.
C22_ConfidenceInUnitInterval ==
    (VlanGroupRan /\ last.resp.status = 200) =>
        /\ "confidence" \in DOMAIN last.resp.body
        /\ InUnitInterval(last.resp.body["confidence"])

\* What a service that has just been started with the secret in its
\* environment (empty log, the client as constructed) makes of the
\* request l, given the limiter's counters as the request found them.
FreshOutcome(l) ==
    LET client == OllamaClient(OLLAMA_HOST)
        key == ConfiguredKey
        refused == Outcome(ratelimit_handler, <<>>, <<>>)
        denied == Outcome(Unauthorized, <<>>, <<>>)
    IN IF l.route = "/vlan-group"
       THEN IF ~require_api_key(key, l.header) THEN denied
            ELSE IF LimiterRefuses(l.hitsBefore, <<l.addr, VlanGroupEndpoint>>)
            THEN refused
            ELSE suggest_vlan_grouping(l.body, l.net, l.at, l.logAt,
                                       l.written, <<>>, client)
       ELSE IF LimiterRefuses(l.hitsBefore, <<l.addr, FeedbackEndpoint>>)
            THEN refused
            ELSE IF ~require_api_key(key, l.header) THEN denied
            ELSE record_feedback(l.body, l.logAt, l.written, <<>>)

\* The service, in the state the session has brought it to (the key and
\* the client as they are by now, the log as the requests before left
\* it), answered the request served last as a service just started
\* answers it, and added to the log what that service writes.
SameAsFresh ==
    last.route \in {"/vlan-group", "/feedback"} =>
        /\ last.resp = FreshOutcome(last).resp
        /\ last.prompts = FreshOutcome(last).prompts
        /\ audit = last.logBefore \o FreshOutcome(last).log

\* C21: a failed request leaves no broken shared state: no step of a
\* session (requests answered 200, 400, 401, 429 or 500, audit writes that
\* fail or stop partway) changes the configured key or the backend
\* client's host, model and timeout, and in every state the request
\* served last has the response and the log record a service just
\* started gives it with the same quota used.
C21_NoBrokenSharedState ==
    /\ [][API_KEY' = API_KEY /\ ollama' = ollama]_vars
    /\ []SameAsFresh

\* C21 witness: a suggestion of one client failed at the backend and was
\* answered 500, the client's next request was throttled, and the
\* request of another client that follows them reaches the view function
\* and is answered 200 as by a service just started.
C21_Witness ==
    /\ VlanGroupRan
    /\ last.resp.status = 200
    /\ \E i, j \in 1..(last.id - 1) :
           /\ i < j
           /\ history[i].kind = "request"
           /\ history[i].route = "/vlan-group"
           /\ history[i].status = 500
           /\ history[j].kind = "request"
           /\ history[j].status = 429
    /\ SameAsFresh
    /\ ollama = OllamaClient(OLLAMA_HOST)

\* The positions of the line ends of the audit file, and the line that
\* ends at one of them (its line end included).
LineEnds == {i \in 1..Len(logfile) : logfile[i] = "\n"}
LineEndingAt(p) ==
    LET earlier == {q \in LineEnds : q < p}
        start == IF earlier = {} THEN 0
                 ELSE CHOOSE q \in earlier : \A r \in earlier : r <= q
    IN SubSeq(logfile, start + 1, p)

\* The calls of log_ai_decision that have written and closed the file.
ClosedWriters == {w \in Writers : writers[w].pc = "closed"}

\* The calls whose write was cut short.
CutWriters == {w \in Writers : writers[w].pc = "cut"}

\* The file consists of whole lines, each of which occurs in it as often
\* as calls that have closed the file wrote it.
WholeLinesOnly ==
    /\ logfile # <<>> => Len(logfile) \in LineEnds
    /\ \A p \in LineEnds :
          \E w \in ClosedWriters : writers[w].line = LineEndingAt(p)
    /\ \A w \in ClosedWriters :
          Cardinality({p \in LineEnds : LineEndingAt(p) = writers[w].line})
              = Cardinality({v \in ClosedWriters :
                                writers[v].line = writers[w].line})

\* C23: when calls of log_ai_decision append at the same time, each
\* opening the file, appending one line and closing it, without a lock
\* (no call's write is cut short), the file consists of whole lines only,
\* and each line occurs in it as often as the calls that have closed the
\* file wrote it: no record is lost and no line holds parts of two
\* records, whatever the order of the calls.
C23_ConcurrentAppendsIntact == CutWriters = {} => WholeLinesOnly

\* C23 witness: every call has closed the file with its line appended,
\* and two of them had the file open at the same time: both opened it
\* when it had the same length, before either wrote.
C23_Witness ==
    /\ ClosedWriters = Writers
    /\ \E w, v \in Writers :
          /\ w # v
          /\ writers[w].f.pos = writers[v].f.pos
    /\ Cardinality(LineEnds) = MaxWriters
    /\ WholeLinesOnly

====
